---- MODULE Spec2Model ----
(***************************************************************************)
(* Conversation memory of the workflow runtime: the process-local and the  *)
(* durable (Redis, push-to-front) message ledgers, the three read          *)
(* strategies, the memory compactor and the two nodes that drive it.       *)
(*                                                                         *)
(* Python values are modelled as follows.  A dict is a record.  A list or  *)
(* tuple handed to code that expects dicts is PyList(items).  None is the  *)
(* record None.  A text is modelled by its length in characters, which is  *)
(* all the token counter reads of it.  json.dumps(v) is [json |-> v].      *)
(* A timestamp is the value of the logical clock when it was taken.        *)
(***************************************************************************)
EXTENDS Integers, Sequences, FiniteSets, TLC

VARIABLES
    backend,      \* settings.REDIS_FOR_CONVERSATION: "memory" or "redis"
    messages,     \* InMemoryConversationMemory.messages (oldest first)
    metadata,     \* InMemoryConversationMemory.metadata["compacted_summary"]
    redis_list,   \* Redis list at _message_key (index 0 = newest)
    redis_meta,   \* Redis hash at _metadata_key, field "compacted_summary"
    clock,        \* datetime.now(): number of timestamps taken so far
    last_op,      \* the last operation called on the thread and what it returned
    rounds,       \* compaction runs that reached the compactor: how many, at which total
    instances,    \* ConversationMemory._instances: thread_id -> key prefix of the instance
    store,        \* durable message lists: key -> the tenant whose message is at its head
    accesses,     \* the last durable access: ambient tenant, thread and key used
    runs,         \* the concurrent _perform_compaction calls on the thread: position and locals
    node_outputs,   \* WorkflowState.node_outputs: node id -> recorded output
    node_inputs,    \* WorkflowState.node_inputs: node id -> recorded input
    execution_path, \* WorkflowState.execution_path
    agg_config,     \* the Aggregator node of the graph: declared sources and configuration
    agg_last,       \* the last call on the Aggregator node and what it returned
    node_call,      \* the last process(config) call on a node of another kind, and its outcome
    exec,           \* the graph executor: entry point, scan position, executed nodes, result
    conversations,  \* the conversations table: id -> status, age, transcription
    cleanup,        \* the last run of the stale-conversation cleanup and its result
    workflow_states, \* the WorkflowState objects created, the uuids drawn, ConversationMemory._instances
    fetch,          \* a call of get_messages_for_compaction on the durable backend: position and locals
    token_call,     \* the last call of calculate_history_tokens: its inputs, locals and result
    durable         \* the three Redis keys of one thread: existence and expiry; the time; the last write

memVars == <<backend, messages, metadata, redis_list, redis_meta, clock, last_op, rounds>>
tenantVars == <<instances, store, accesses>>
stateVars == <<node_outputs, node_inputs, execution_path>>
aggVars == <<agg_config, agg_last>>
engineVars == <<node_call, exec>>
restVars == <<conversations, cleanup, workflow_states, fetch, token_call, durable>>
wfVars == <<runs, stateVars, aggVars, engineVars, restVars>>
vars == <<backend, messages, metadata, redis_list, redis_meta, clock, last_op, rounds,
          instances, store, accesses, runs,
          node_outputs, node_inputs, execution_path, agg_config, agg_last,
          node_call, exec, conversations, cleanup, workflow_states, fetch,
          token_call, durable>>

----------------------------------------------------------------------------
(* Bounds of the model *)

\* messages appended to the thread in the small scenarios
MaxAppends == 3
\* largest max_messages asked of get_messages / get_chat_history
MaxCount == 3
\* messages appended in the end-to-end scenario (threshold 20, keepRecent 10)
MaxE2E == 26
\* WorkflowState objects created
MaxStates == 4
\* days that pass while the keys of a durable thread are written
MaxDays == 4

(* Program constants *)

\* config.get("compactingThreshold", 20)
DefaultThreshold == 20
\* config.get("compactingKeepRecent", 10)
DefaultKeepRecent == 10
\* max_messages=999 of the "never compacted and below threshold" branch
FallbackMaxMessages == 999
\* batch_size of RedisConversationMemory.get_chat_history_within_tokens
BatchSize == 50
\* timedelta(minutes=5) of the stale-conversation cleanup
StaleMinutes == 5
\* message_count < 3: the conversations the cleanup deletes
MinMessages == 3
\* calculate_history_tokens: TOTAL_TOKEN_DEFAULT
TotalTokenDefault == 10000
\* calculate_history_tokens: TOTAL_CONVERSATION_HISTORY_DEFAULT
TotalConversationHistoryDefault == 5000
\* redis.expire(key, 86400 * 30), in days
ExpireDays == 30
\* summary["entities"][:20]
MaxEntitiesShown == 20

----------------------------------------------------------------------------
(* Python helpers *)

None == [none |-> TRUE]

Max(a, b) == IF a >= b THEN a ELSE b
Min(a, b) == IF a <= b THEN a ELSE b

Reverse(s) == [i \in 1..Len(s) |-> s[Len(s) + 1 - i]]

\* s[a:b] with 0 <= a, 0 <= b (Python clamps both to len(s))
PySlice(s, a, b) == SubSeq(s, Min(a, Len(s)) + 1, Min(b, Len(s)))

\* s[-n:] for n >= 0; s[-0:] is s[0:], the whole list
PyLast(s, n) == IF n = 0 THEN s ELSE SubSeq(s, Max(1, Len(s) - n + 1), Len(s))

\* a list or tuple where the callee expects a dict
PyList(items) == [items |-> items]
\* whether v is a dict, i.e. v.get(...) does not raise AttributeError
IsDict(v) == "items" \notin DOMAIN v

JsonDumps(v) == [json |-> v]
JsonLoads(s) == s.json

MapSeq(s, F(_)) == [i \in 1..Len(s) |-> F(s[i])]

\* a local variable: the value is computed once and the rest of the body reads it
Let(value, Body(_)) == Body(value)

\* str.capitalize() of a role
Capitalize(role) ==
    CASE role = "user" -> "User"
      [] role = "assistant" -> "Assistant"
      [] role = "system" -> "System"
      [] OTHER -> role

Roles == {"user", "assistant"}
\* len(role)
RoleChars(role) == IF role = "user" THEN 4 ELSE IF role = "assistant" THEN 9 ELSE 6
\* lengths of the contents appended in the model
Contents == {2, 40}

----------------------------------------------------------------------------
(* Message *)

\* Message.__init__ and Message.to_dict
Message(role, content, now) ==
    [role |-> role, content |-> [chars |-> content],
     message_type |-> "text", timestamp |-> now]

----------------------------------------------------------------------------
(* Token counter *)

\* ApproximateTokenCounter.count_tokens: int(len(text) / 3.75), 0 for ""
count_tokens(chars) == IF chars = 0 THEN 0 ELSE (chars * 4) \div 15

\* counter.count_tokens(f"{role}: {content}") of one message dict
message_tokens(m) == count_tokens(RoleChars(m.role) + 2 + m.content.chars)

----------------------------------------------------------------------------
(* Role filter of get_messages: roles=None or roles=[...] *)

NoRoles == [filter |-> FALSE, roles |-> {}]
OnlyRoles(S) == [filter |-> TRUE, roles |-> S]

\* the history rendered with as_string=True: one "Role: content" line per message
AsString(msgs) ==
    [i \in 1..Len(msgs) |-> [line_role |-> Capitalize(msgs[i].role),
                             line_content |-> msgs[i].content]]

----------------------------------------------------------------------------
(* InMemoryConversationMemory *)

InMemory_get_messages(msgs, max_messages, roles) ==
    LET filtered == IF roles.filter /\ roles.roles # {}
                    THEN SelectSeq(msgs, LAMBDA m : m.role \in roles.roles)
                    ELSE msgs
    IN  IF max_messages # 0 THEN PyLast(filtered, max_messages) ELSE filtered

InMemory_get_chat_history(msgs, as_string, max_messages) ==
    IF as_string THEN AsString(PyLast(msgs, max_messages))
    ELSE PyLast(msgs, max_messages)

\* a selection loop that never looks at the budget
select_ignoring_budget(newest_first, i, selected, current_tokens, token_budget) ==
    newest_first

\* the loop of get_chat_history_within_tokens over newest_first[i..], with the
\* messages selected so far and their token sum; returns the selection, newest first
RECURSIVE select_within_tokens(_, _, _, _, _)
select_within_tokens(newest_first, i, selected, current_tokens, token_budget) ==
    IF i > Len(newest_first) THEN selected
    ELSE LET m == newest_first[i]
             t == message_tokens(m)
         IN  IF current_tokens + t > token_budget
             THEN (IF selected = <<>> THEN <<m>> ELSE selected)
             ELSE select_within_tokens(newest_first, i + 1, Append(selected, m),
                                       current_tokens + t, token_budget)

\* [raised |-> TRUE] stands for the ValueError("Token budget must be positive")
InMemory_get_chat_history_within_tokens(msgs, token_budget, as_string) ==
    IF token_budget <= 0 THEN [raised |-> TRUE, value |-> <<>>]
    ELSE LET selected == Reverse(select_within_tokens(Reverse(msgs), 1, <<>>, 0, token_budget))
         IN  [raised |-> FALSE,
              value |-> IF as_string THEN AsString(selected) ELSE selected]

\* summary.get("compacted_message_count", 0)
compacted_message_count(summary) == summary.compacted_message_count

\* `if summary:` -- None is falsy, every stored summary dict has keys and is truthy
Truthy(summary) == summary # None

InMemory_needs_compaction(msgs, summary, threshold) ==
    LET total_messages == Len(msgs)
    IN  IF total_messages < threshold THEN FALSE
        ELSE IF Truthy(summary)
                /\ total_messages < compacted_message_count(summary) + threshold
             THEN FALSE
             ELSE TRUE

\* the pair (to_compact, to_keep)
InMemory_get_messages_for_compaction(msgs, summary, keep_recent) ==
    LET total_messages == Len(msgs)
        start_index == IF Truthy(summary) THEN compacted_message_count(summary) ELSE 0
        split_index == Max(start_index, total_messages - keep_recent)
    IN  IF split_index <= start_index
        THEN <<(<<>>), IF keep_recent > 0 THEN PyLast(msgs, keep_recent) ELSE <<>>>>
        ELSE <<PySlice(msgs, start_index, split_index),
               IF keep_recent > 0 THEN PyLast(msgs, keep_recent) ELSE <<>>>>

\* _format_compacted_summary: the parts joined into the synthetic message's content
format_compacted_summary(summary) ==
    LET shown == PySlice(summary.entities, 0, MaxEntitiesShown)
    IN  [parts |->
           <<[part |-> "[Conversation History Summary]"]>>
           \o (IF summary.prose_summary # ""
               THEN <<[part |-> "Context", text |-> summary.prose_summary]>> ELSE <<>>)
           \o (IF summary.entities # <<>>
               THEN <<[part |-> "Key Information"]>>
                    \o [i \in 1..Len(shown) |-> [part |-> "entity", entity |-> shown[i]]]
               ELSE <<>>)
           \o (IF summary.compacted_message_count # 0
               THEN <<[part |-> "Summary represents",
                       messages |-> summary.compacted_message_count]>>
               ELSE <<>>)]

\* the synthetic "system" message that carries the summary
synthetic_system_message(summary) ==
    [role |-> "system",
     content |-> format_compacted_summary(summary),
     message_type |-> "compacted_summary",
     timestamp |-> summary.last_compaction_timestamp]

\* the body shared by both backends once summary and recent_messages are fetched
chat_history_with_compaction(summary, recent_messages, as_string) ==
    Let((IF Truthy(summary) /\ (summary.prose_summary # "" \/ summary.entities # <<>>)
         THEN <<synthetic_system_message(summary)>>
         ELSE <<>>)
        \o recent_messages,
        LAMBDA result : IF as_string THEN AsString(result) ELSE result)

InMemory_get_chat_history_with_compaction(msgs, summary, max_messages, as_string) ==
    chat_history_with_compaction(summary, InMemory_get_messages(msgs, max_messages, NoRoles),
                                 as_string)

----------------------------------------------------------------------------
(* RedisConversationMemory *)

\* redis LRANGE key start stop: both ends inclusive, negative indexes count from
\* the tail, out-of-range indexes are clamped
LRange(list, start, stop) ==
    LET n == Len(list)
        a0 == IF start < 0 THEN n + start ELSE start
        b0 == IF stop < 0 THEN n + stop ELSE stop
        a == Max(a0, 0)
        b == Min(b0, n - 1)
    IN  IF a > b THEN <<>> ELSE SubSeq(list, a + 1, b + 1)

\* redis LPUSH key value
LPush(list, value) == <<value>> \o list

\* a read that forgets messages.reverse()
Redis_get_messages_newest_first(list, max_messages, roles) ==
    MapSeq(LRange(list, 0, max_messages - 1), JsonLoads)

Redis_get_messages(list, max_messages, roles) ==
    LET message_jsons == LRange(list, 0, max_messages - 1)
        parsed == MapSeq(message_jsons, JsonLoads)
        kept == SelectSeq(parsed, LAMBDA m : (~roles.filter) \/ m.role \in roles.roles)
        chronological == Reverse(kept)
    IN  IF max_messages # 0 /\ Len(chronological) > max_messages
        THEN PyLast(chronological, max_messages)
        ELSE chronological

Redis_get_chat_history(list, as_string, max_messages) ==
    LET msgs == Redis_get_messages(list, max_messages, NoRoles)
    IN  IF as_string THEN AsString(msgs) ELSE msgs

Redis_get_chat_history_within_tokens(list, token_budget, as_string) ==
    IF token_budget <= 0 THEN [raised |-> FALSE, value |-> <<>>]
    ELSE LET message_jsons == LRange(list, 0, BatchSize - 1)
         IN  IF message_jsons = <<>> THEN [raised |-> FALSE, value |-> <<>>]
             ELSE LET selected == Reverse(select_within_tokens(
                                      MapSeq(message_jsons, JsonLoads), 1, <<>>, 0,
                                      token_budget))
                  IN  [raised |-> FALSE,
                       value |-> IF as_string THEN AsString(selected) ELSE selected]

\* get_metadata("compacted_summary"): json.loads of the hash field, None when absent
Redis_get_compacted_summary(meta) == IF meta = None THEN None ELSE JsonLoads(meta)

Redis_needs_compaction(list, meta, threshold) ==
    LET total_messages == Len(list)
        summary == Redis_get_compacted_summary(meta)
    IN  IF total_messages < threshold THEN FALSE
        ELSE IF Truthy(summary)
                /\ total_messages < compacted_message_count(summary) + threshold
             THEN FALSE
             ELSE TRUE

\* redis_start = total_messages - split_index
redis_start(total_messages, split_index) == total_messages - split_index
\* an end index that is one too far
redis_end_one_too_far(total_messages, start_index) == total_messages - start_index

\* redis_end = total_messages - start_index - 1
redis_end(total_messages, start_index) == total_messages - start_index - 1

\* the messages at chronological positions [start_index, split_index), oldest first:
\* lrange(redis_start, redis_end), reversed and parsed
chronological_range(list, start_index, split_index) ==
    MapSeq(Reverse(LRange(list, redis_start(Len(list), split_index),
                          redis_end(Len(list), start_index))),
           JsonLoads)

\* the pair (to_compact, to_keep)
Redis_get_messages_for_compaction(list, meta, keep_recent) ==
    Let(Redis_get_compacted_summary(meta), LAMBDA summary :
    Let(IF Truthy(summary) THEN compacted_message_count(summary) ELSE 0,
        LAMBDA start_index :
    Let(Max(start_index, Len(list) - keep_recent), LAMBDA split_index :
        IF split_index <= start_index
        THEN <<(<<>>), Redis_get_messages(list, keep_recent, NoRoles)>>
        ELSE <<chronological_range(list, start_index, split_index),
               Redis_get_messages(list, keep_recent, NoRoles)>>)))

Redis_get_chat_history_with_compaction(list, meta, max_messages, as_string) ==
    chat_history_with_compaction(Redis_get_compacted_summary(meta),
                                 Redis_get_messages(list, max_messages, NoRoles),
                                 as_string)

----------------------------------------------------------------------------
(* The polymorphic memory interface: the call lands in the configured backend *)

get_compacted_summary(b, meta) ==
    IF b = "memory" THEN meta ELSE Redis_get_compacted_summary(meta)

\* set_compacted_summary: the value the backend stores for the summary
set_compacted_summary(b, summary) ==
    IF b = "memory" THEN summary ELSE JsonDumps(summary)

get_messages(b, list, max_messages, roles) ==
    IF b = "memory" THEN InMemory_get_messages(list, max_messages, roles)
    ELSE Redis_get_messages(list, max_messages, roles)

get_chat_history(b, list, as_string, max_messages) ==
    IF b = "memory" THEN InMemory_get_chat_history(list, as_string, max_messages)
    ELSE Redis_get_chat_history(list, as_string, max_messages)

get_chat_history_within_tokens(b, list, token_budget, as_string) ==
    IF b = "memory" THEN InMemory_get_chat_history_within_tokens(list, token_budget, as_string)
    ELSE Redis_get_chat_history_within_tokens(list, token_budget, as_string)

needs_compaction(b, list, meta, threshold) ==
    IF b = "memory" THEN InMemory_needs_compaction(list, meta, threshold)
    ELSE Redis_needs_compaction(list, meta, threshold)

get_messages_for_compaction(b, list, meta, keep_recent) ==
    IF b = "memory" THEN InMemory_get_messages_for_compaction(list, meta, keep_recent)
    ELSE Redis_get_messages_for_compaction(list, meta, keep_recent)

get_chat_history_with_compaction(b, list, meta, max_messages, as_string) ==
    IF b = "memory"
    THEN InMemory_get_chat_history_with_compaction(list, meta, max_messages, as_string)
    ELSE Redis_get_chat_history_with_compaction(list, meta, max_messages, as_string)

----------------------------------------------------------------------------
(* MemoryCompactor *)

\* what llm_model.ainvoke does: raises, or answers with a text that holds no JSON,
\* unparsable JSON, JSON without the required keys, or a well-formed summary
LLMResponses ==
    { [kind |-> k, entities |-> <<>>, prose_summary |-> ""] :
          k \in {"raise", "no_json", "missing_keys"} }
    \cup { [kind |-> "ok",
            entities |-> <<[type |-> "fact", description |-> "d"]>>,
            prose_summary |-> "prose"] }

WellFormedResponses == {r \in LLMResponses : r.kind = "ok"}

empty_summary ==
    [entities |-> <<>>, prose_summary |-> "", compacted_message_count |-> 0,
     compacted_until_timestamp |-> None, last_compaction_timestamp |-> None]

\* a formatter that accepts whatever it is handed
format_messages_never_raises(msgs, existing_summary) == FALSE

\* _format_messages_for_compaction: TRUE when it raises, which it does on the first
\* msg without .get (AttributeError); otherwise it returns the prompt text
format_messages_for_compaction_raises(msgs, existing_summary) ==
    \E i \in 1..Len(msgs) : ~IsDict(msgs[i])

\* _parse_llm_response: TRUE when it raises (ValueError, JSONDecodeError)
parse_llm_response_raises(response) == response.kind # "ok"

\* a count that forgets the messages compacted in earlier rounds
count_of_this_round_only(msgs, existing_summary) == Len(msgs)

\* result["compacted_message_count"]
new_compacted_message_count(msgs, existing_summary) ==
    IF Truthy(existing_summary)
    THEN Len(msgs) + compacted_message_count(existing_summary)
    ELSE Len(msgs)

\* compact_messages(messages, existing_summary) with the model answering `response`
\* at time `now`: [raised, value, llm_called, compacted]
compact_messages(msgs, existing_summary, response, now) ==
    LET fallback == IF Truthy(existing_summary) THEN existing_summary ELSE empty_summary
    IN  IF Len(msgs) = 0
        THEN [raised |-> FALSE, value |-> fallback, llm_called |-> FALSE, compacted |-> FALSE]
        ELSE IF format_messages_for_compaction_raises(msgs, existing_summary)
        THEN [raised |-> TRUE, value |-> None, llm_called |-> FALSE, compacted |-> FALSE]
        \* inside the try: ainvoke, _parse_llm_response and messages[-1].get may raise
        ELSE IF \/ response.kind = "raise"
                \/ parse_llm_response_raises(response)
                \/ ~IsDict(msgs[Len(msgs)])
        THEN [raised |-> FALSE, value |-> fallback, llm_called |-> TRUE, compacted |-> FALSE]
        ELSE [raised |-> FALSE,
              value |-> [entities |-> response.entities,
                         prose_summary |-> response.prose_summary,
                         compacted_message_count |->
                             new_compacted_message_count(msgs, existing_summary),
                         compacted_until_timestamp |-> msgs[Len(msgs)].timestamp,
                         last_compaction_timestamp |-> now],
              llm_called |-> TRUE, compacted |-> TRUE]

----------------------------------------------------------------------------
(* LLMModelNode / AgentNode *)

\* _perform_compaction on backend b holding `list` and `meta`:
\* [meta: what the backend holds for the summary afterwards, attempted: the compactor
\*  was called, failed: the attempt raised or fell back, llm_called, split: the pair
\*  get_messages_for_compaction returned, handed: what the compactor was handed]
perform_compaction(b, list, meta, keep_recent, response, now) ==
    Let(get_messages_for_compaction(b, list, meta, keep_recent), LAMBDA split :
    \* to_compact is the whole tuple (to_compact, to_keep), never unpacked
    Let(<<PyList(split[1]), PyList(split[2])>>, LAMBDA to_compact :
        IF Len(to_compact) = 0
        THEN [meta |-> meta, attempted |-> FALSE, failed |-> FALSE, llm_called |-> FALSE,
              split |-> split, handed |-> to_compact]
        ELSE
    Let(compact_messages(to_compact, get_compacted_summary(b, meta), response, now),
        LAMBDA new_summary :
        IF new_summary.raised
        THEN [meta |-> meta, attempted |-> TRUE, failed |-> TRUE,
              llm_called |-> new_summary.llm_called,
              split |-> split, handed |-> to_compact]
        ELSE [meta |-> set_compacted_summary(b, new_summary.value), attempted |-> TRUE,
              failed |-> ~new_summary.compacted, llm_called |-> new_summary.llm_called,
              split |-> split, handed |-> to_compact])))

\* what _perform_compaction reports when it is not called
no_compaction(meta) ==
    [meta |-> meta, attempted |-> FALSE, failed |-> FALSE, llm_called |-> FALSE,
     split |-> <<(<<>>), (<<>>)>>, handed |-> <<>>]

\* LLMModelNode._get_chat_history_for_context, memoryTrimmingMode = "message_compacting":
\* [meta, result, needed, compaction]
LLMModelNode_get_chat_history_for_context(b, list, meta, threshold, keep_recent, response, now) ==
    Let(get_compacted_summary(b, meta), LAMBDA existing_summary :
    Let(needs_compaction(b, list, meta, threshold), LAMBDA needed :
        IF Truthy(existing_summary) \/ needed
        THEN Let(IF needs_compaction(b, list, meta, threshold)
                 THEN perform_compaction(b, list, meta, keep_recent, response, now)
                 ELSE no_compaction(meta),
                 LAMBDA c :
                 [meta |-> c.meta, needed |-> needed, compaction |-> c,
                  result |-> get_chat_history_with_compaction(b, list, c.meta,
                                                              keep_recent, TRUE)])
        ELSE [meta |-> meta, needed |-> needed, compaction |-> no_compaction(meta),
              result |-> get_chat_history(b, list, TRUE, FallbackMaxMessages)]))

\* AgentNode._get_chat_history_for_agent, memoryTrimmingMode = "message_compacting"
AgentNode_get_chat_history_for_agent(b, list, meta, threshold, keep_recent, response, now) ==
    Let(get_compacted_summary(b, meta), LAMBDA existing_summary :
    Let(needs_compaction(b, list, meta, threshold), LAMBDA needed :
        IF Truthy(existing_summary) \/ needed
        THEN Let(IF needed
                 THEN perform_compaction(b, list, meta, keep_recent, response, now)
                 ELSE no_compaction(meta),
                 LAMBDA c :
                 [meta |-> c.meta, needed |-> needed, compaction |-> c,
                  result |-> get_chat_history_with_compaction(b, list, c.meta,
                                                              keep_recent, FALSE)])
        ELSE [meta |-> meta, needed |-> needed, compaction |-> no_compaction(meta),
              result |-> get_messages(b, list, FallbackMaxMessages, NoRoles)]))

----------------------------------------------------------------------------
(* The thread's state and the operations on it *)

\* what the configured backend holds
Stored == IF backend = "memory" THEN messages ELSE redis_list
StoredMeta == IF backend = "memory" THEN metadata ELSE redis_meta
\* llen / len(self.messages)
Total == Len(Stored)
\* the stored summary, decoded
Summary == get_compacted_summary(backend, StoredMeta)
\* the appended messages, oldest first, whatever the backend
History == IF backend = "memory" THEN messages ELSE Reverse(MapSeq(redis_list, JsonLoads))

NoOp ==
    [op |-> "none", node |-> "", max_messages |-> 0, roles |-> NoRoles,
     as_string |-> FALSE, token_budget |-> 0, threshold |-> 0, keep_recent |-> 0,
     raised |-> FALSE, result |-> <<>>, needed |-> FALSE,
     compaction |-> no_compaction(None), meta_before |-> None]

\* the compacting configurations of the small scenarios: <<threshold, keepRecent>>
Configs == {<<2, 1>>, <<3, 2>>, <<2, 0>>}
\* the token budgets of the small scenarios
Budgets == {0, 1, 14}
RoleFilters == {NoRoles, OnlyRoles({"user"})}

MemInit ==
    /\ backend \in {"memory", "redis"}
    /\ messages = <<>>
    /\ metadata = None
    /\ redis_list = <<>>
    /\ redis_meta = None
    /\ clock = 0
    /\ last_op = NoOp
    /\ rounds = 0

TenantIdle ==
    /\ instances = <<>>
    /\ store = <<>>
    /\ accesses = None

RunIds == {1, 2}

\* an execution that is not inside _perform_compaction
IdleRun ==
    [pc |-> "idle", keep_recent |-> 0, total |-> 0, meta_at_start |-> None,
     split |-> <<(<<>>), (<<>>)>>, existing_summary |-> None, stored |-> FALSE]

\* nothing of the workflow runtime has run
\* WorkflowState.__init__: nothing recorded yet
StateIdle ==
    /\ node_outputs = <<>>
    /\ node_inputs = <<>>
    /\ execution_path = <<>>

\* the Aggregator node has not been called
NoCall == [op |-> "none"]

\* no Aggregator node in the graph
AggIdle ==
    /\ agg_config = None
    /\ agg_last = NoCall

\* no execution has been started
ExecIdle ==
    [pc |-> "idle", entry |-> "", order |-> <<>>, terminal_sources |-> <<>>, at |-> 0,
     executed |-> {}, times |-> <<>>, progressed |-> FALSE, passes |-> 0, result |-> None]

\* no node has been processed
EngineIdle ==
    /\ node_call = NoCall
    /\ exec = ExecIdle

\* nothing outside the workflow engine has run
\* the values uuid.uuid4() returns, in the order of the calls: no two alike
UuidValues == <<"u0", "u1", "u2", "u3", "u4", "u5">>
\* str(uuid.uuid4()), the call being the n-th since the program started
uuid4(n) == UuidValues[n]

\* state.py is imported: the def statement of WorkflowState.__init__ evaluates the
\* default of thread_id; no object exists, ConversationMemory._instances is empty
ModuleLoaded ==
    [default_thread_id |-> uuid4(1), draws |-> 1, created |-> <<>>, instances |-> <<>>]

\* no call of get_messages_for_compaction is under way
NoFetch ==
    [pc |-> "idle", keep_recent |-> 0, total_messages |-> 0, start_index |-> 0,
     split_index |-> 0, to_compact |-> <<>>, to_keep |-> <<>>]

\* a Redis key that does not exist
NoKey == [exists |-> FALSE, expire_at |-> 0]

\* no key of the thread exists, no instance has initialized the conversation
DurableIdle ==
    [messages |-> NoKey, metadata |-> NoKey, info |-> NoKey, now |-> 0,
     initialized |-> FALSE, op |-> "none", wrote |-> {}]

RestIdle ==
    /\ conversations = <<>>
    /\ cleanup = NoCall
    /\ workflow_states = ModuleLoaded
    /\ fetch = NoFetch
    /\ token_call = NoCall
    /\ durable = DurableIdle

WfIdle ==
    /\ runs = [i \in RunIds |-> IdleRun]
    /\ StateIdle
    /\ AggIdle
    /\ EngineIdle
    /\ RestIdle

\* add_user_message / add_assistant_message -> add_message
add_message(role, content) ==
    /\ clock' = clock + 1
    /\ IF backend = "memory"
       THEN /\ messages' = Append(messages, Message(role, content, clock + 1))
            /\ UNCHANGED redis_list
       ELSE /\ redis_list' = LPush(redis_list, JsonDumps(Message(role, content, clock + 1)))
            /\ UNCHANGED messages
    /\ last_op' = [NoOp EXCEPT !.op = "add_message"]
    /\ UNCHANGED <<backend, metadata, redis_meta, rounds>>

GetMessages(max_messages, roles) ==
    /\ last_op' = [NoOp EXCEPT !.op = "get_messages", !.max_messages = max_messages,
                               !.roles = roles,
                               !.result = get_messages(backend, Stored, max_messages, roles)]
    /\ UNCHANGED <<backend, messages, metadata, redis_list, redis_meta, clock, rounds>>

GetChatHistory(as_string, max_messages) ==
    /\ last_op' = [NoOp EXCEPT !.op = "get_chat_history", !.max_messages = max_messages,
                               !.as_string = as_string,
                               !.result = get_chat_history(backend, Stored, as_string,
                                                           max_messages)]
    /\ UNCHANGED <<backend, messages, metadata, redis_list, redis_meta, clock, rounds>>

GetChatHistoryWithinTokens(token_budget, as_string) ==
    LET r == get_chat_history_within_tokens(backend, Stored, token_budget, as_string)
    IN  /\ last_op' = [NoOp EXCEPT !.op = "get_chat_history_within_tokens",
                                   !.token_budget = token_budget, !.as_string = as_string,
                                   !.raised = r.raised, !.result = r.value]
        /\ UNCHANGED <<backend, messages, metadata, redis_list, redis_meta, clock, rounds>>

\* the thread after a node fetched its history and got r
RecordNodeChatHistory(node, threshold, keep_recent, r) ==
    /\ IF backend = "memory"
       THEN metadata' = r.meta /\ UNCHANGED redis_meta
       ELSE redis_meta' = r.meta /\ UNCHANGED metadata
    /\ last_op' = [NoOp EXCEPT !.op = "node_chat_history", !.node = node,
                               !.threshold = threshold, !.keep_recent = keep_recent,
                               !.as_string = (node = "llm"),
                               !.result = r.result, !.needed = r.needed,
                               !.compaction = r.compaction,
                               !.meta_before = StoredMeta]
    /\ rounds' = IF r.compaction.attempted THEN Min(rounds + 1, 2) ELSE rounds
    /\ UNCHANGED <<backend, messages, redis_list, clock>>

\* a node with memoryTrimmingMode = "message_compacting" fetches its history
NodeChatHistory(node, threshold, keep_recent, response) ==
    RecordNodeChatHistory(node, threshold, keep_recent,
        IF node = "llm"
        THEN LLMModelNode_get_chat_history_for_context(
                 backend, Stored, StoredMeta, threshold, keep_recent, response, clock)
        ELSE AgentNode_get_chat_history_for_agent(
                 backend, Stored, StoredMeta, threshold, keep_recent, response, clock))

----------------------------------------------------------------------------
(* Tenant-prefixed durable keys and the per-thread instance registry *)

\* get_tenant_context() of a call: a tenant id, or "" when there is no tenant context
Tenants == {"", "a", "b"}
ThreadIds == {"t1"}

\* RedisConversationMemory._get_tenant_prefix; a text is the sequence of its pieces
get_tenant_prefix(tenant_id) ==
    IF tenant_id # "" THEN <<"tenant:", tenant_id, ":">> ELSE <<>>

\* RedisConversationMemory.__init__ under the ambient tenant of the constructing call
RedisConversationMemory(thread_id, tenant_id) ==
    [thread_id |-> thread_id,
     message_key |-> get_tenant_prefix(tenant_id) \o <<":conversation:", thread_id, ":messages">>,
     metadata_key |-> get_tenant_prefix(tenant_id) \o <<":conversation:", thread_id, ":metadata">>,
     conversation_key |-> get_tenant_prefix(tenant_id) \o <<":conversation:", thread_id, ":info">>]

\* ConversationMemory.get_instance: _instances after the call made under tenant_id
get_instance(insts, thread_id, tenant_id) ==
    IF thread_id \notin DOMAIN insts
    THEN (thread_id :> RedisConversationMemory(thread_id, tenant_id)) @@ insts
    ELSE insts

\* a request of `tenant_id` appends a message to the thread's memory
TenantAddMessage(tenant_id, thread_id) ==
    /\ instances' = get_instance(instances, thread_id, tenant_id)
    /\ store' = (instances'[thread_id].message_key :> tenant_id) @@ store
    /\ accesses' = [tenant |-> tenant_id, thread_id |-> thread_id, op |-> "add_message",
                    key |-> instances'[thread_id].message_key, data_of |-> tenant_id]

\* a request of `tenant_id` reads the thread's messages; data_of is the tenant whose
\* message the read returns, "nobody" when the list is empty
TenantGetMessages(tenant_id, thread_id) ==
    /\ instances' = get_instance(instances, thread_id, tenant_id)
    /\ accesses' = [tenant |-> tenant_id, thread_id |-> thread_id, op |-> "get_messages",
                    key |-> instances'[thread_id].message_key,
                    data_of |-> IF instances'[thread_id].message_key \in DOMAIN store
                                THEN store[instances'[thread_id].message_key]
                                ELSE "nobody"]
    /\ UNCHANGED store

\* ConversationMemory.clear_all
clear_all ==
    /\ instances' = <<>>
    /\ UNCHANGED <<store, accesses>>

TenantInit ==
    /\ backend = "redis"
    /\ messages = <<>>
    /\ metadata = None
    /\ redis_list = <<>>
    /\ redis_meta = None
    /\ clock = 0
    /\ last_op = NoOp
    /\ rounds = 0
    /\ TenantIdle
    /\ WfIdle

NextTenant ==
    \/ \E t \in Tenants, th \in ThreadIds : TenantAddMessage(t, th) /\ UNCHANGED <<memVars, wfVars>>
    \/ \E t \in Tenants, th \in ThreadIds : TenantGetMessages(t, th) /\ UNCHANGED <<memVars, wfVars>>
    \/ clear_all /\ UNCHANGED <<memVars, wfVars>>

SpecTenant == TenantInit /\ [][NextTenant]_vars

----------------------------------------------------------------------------
(* MemoryCompactor.compact_messages applied to lists of message dicts *)

\* the summaries a thread can hold when the compactor is called: none, or one that
\* an earlier call returned
ExistingSummaries ==
    {None}
    \cup { [entities |-> <<[type |-> "fact", description |-> "d"]>>,
            prose_summary |-> "prose",
            compacted_message_count |-> n, compacted_until_timestamp |-> n,
            last_compaction_timestamp |-> n] : n \in 1..2 }

\* the thread after compact_messages(msgs, existing_summary) returned r
RecordCompactMessages(msgs, existing_summary, r) ==
    /\ last_op' = [NoOp EXCEPT !.op = "compact_messages",
                               !.meta_before = existing_summary,
                               !.raised = r.raised, !.result = r.value,
                               !.compaction = [no_compaction(None) EXCEPT
                                                  !.attempted = TRUE,
                                                  !.failed = ~r.compacted,
                                                  !.llm_called = r.llm_called,
                                                  !.handed = msgs]]
    /\ UNCHANGED <<backend, messages, metadata, redis_list, redis_meta, clock, rounds>>

\* compact_messages is handed the k oldest messages of the thread, as dicts
CompactMessages(k, existing_summary, response) ==
    RecordCompactMessages(SubSeq(History, 1, k), existing_summary,
        compact_messages(SubSeq(History, 1, k), existing_summary, response, clock))

----------------------------------------------------------------------------
(* Two executions on one thread inside _perform_compaction at the same time *)

\* the node finds needs_compaction(threshold) true and enters _perform_compaction,
\* which awaits get_messages_for_compaction(keep_recent)
RunGetMessagesForCompaction(i, threshold, keep_recent) ==
    /\ runs[i].pc = "idle"
    /\ needs_compaction(backend, Stored, StoredMeta, threshold)
    /\ runs' = [runs EXCEPT ![i] =
                   [IdleRun EXCEPT !.pc = "existing_summary",
                                   !.keep_recent = keep_recent,
                                   !.total = Total,
                                   !.meta_at_start = StoredMeta,
                                   !.split = get_messages_for_compaction(
                                                 backend, Stored, StoredMeta, keep_recent)]]
    /\ UNCHANGED memVars

\* llm_provider.get_model, then existing_summary = await memory.get_compacted_summary()
RunGetCompactedSummary(i) ==
    /\ runs[i].pc = "existing_summary"
    /\ runs' = [runs EXCEPT ![i].pc = "compact",
                            ![i].existing_summary = get_compacted_summary(backend, StoredMeta)]
    /\ UNCHANGED memVars

\* the thread's summary entry after run i got r from compact_messages: stored by
\* set_compacted_summary unless the call raised
RecordRunCompact(i, r) ==
    /\ IF r.raised
       THEN UNCHANGED <<metadata, redis_meta>>
       ELSE IF backend = "memory"
            THEN metadata' = set_compacted_summary(backend, r.value) /\ UNCHANGED redis_meta
            ELSE redis_meta' = set_compacted_summary(backend, r.value) /\ UNCHANGED metadata
    /\ runs' = [runs EXCEPT ![i].pc = "done", ![i].stored = ~r.raised]
    /\ UNCHANGED <<backend, messages, redis_list, clock, last_op, rounds>>

\* new_summary = await compactor.compact_messages(to_compact, existing_summary), where
\* to_compact is still the pair; then await memory.set_compacted_summary(new_summary)
RunCompactMessages(i, response) ==
    /\ runs[i].pc = "compact"
    /\ RecordRunCompact(i, compact_messages(
                               <<PyList(runs[i].split[1]), PyList(runs[i].split[2])>>,
                               runs[i].existing_summary, response, clock))

Init == MemInit /\ TenantIdle /\ WfIdle

\* the threads of the compacting nodes
Next ==
    \/ \E role \in Roles, content \in Contents :
           clock < MaxAppends /\ add_message(role, content) /\ UNCHANGED <<tenantVars, wfVars>>
    \/ \E node \in {"llm", "agent"}, cfg \in Configs, response \in LLMResponses :
           NodeChatHistory(node, cfg[1], cfg[2], response) /\ UNCHANGED <<tenantVars, wfVars>>

Spec == Init /\ [][Next]_vars

\* the threads read with message_count and token_budget
NextRead ==
    \/ \E role \in Roles, content \in Contents :
           clock < MaxAppends /\ add_message(role, content) /\ UNCHANGED <<tenantVars, wfVars>>
    \/ \E n \in 0..MaxCount, roles \in RoleFilters :
           GetMessages(n, roles) /\ UNCHANGED <<tenantVars, wfVars>>
    \/ \E n \in 0..MaxCount, as_string \in BOOLEAN :
           GetChatHistory(as_string, n) /\ UNCHANGED <<tenantVars, wfVars>>
    \/ \E budget \in Budgets :
           GetChatHistoryWithinTokens(budget, FALSE) /\ UNCHANGED <<tenantVars, wfVars>>

SpecRead == Init /\ [][NextRead]_vars

\* the end-to-end scenario: a user/assistant exchange read by a compacting node with
\* the default compactingThreshold and compactingKeepRecent, the compacting model
\* answering every call with a well-formed summary
NextE2E ==
    \/ /\ clock < MaxE2E
       /\ add_message(IF clock % 2 = 0 THEN "user" ELSE "assistant", 2)
       /\ UNCHANGED <<tenantVars, wfVars>>
    \/ \E node \in {"llm", "agent"}, response \in WellFormedResponses :
           NodeChatHistory(node, DefaultThreshold, DefaultKeepRecent, response)
           /\ UNCHANGED <<tenantVars, wfVars>>

SpecE2E == Init /\ [][NextE2E]_vars

\* the compactor called on its own
NextCompactor ==
    \/ \E role \in Roles, content \in Contents :
           clock < MaxAppends /\ add_message(role, content) /\ UNCHANGED <<tenantVars, wfVars>>
    \/ \E k \in 0..Total, existing_summary \in ExistingSummaries, response \in LLMResponses :
           CompactMessages(k, existing_summary, response) /\ UNCHANGED <<tenantVars, wfVars>>

SpecCompactor == Init /\ [][NextCompactor]_vars

\* two executions compacting one thread concurrently
NextRace ==
    \/ \E role \in Roles, content \in Contents :
           clock < MaxAppends /\ add_message(role, content)
           /\ UNCHANGED <<tenantVars, wfVars>>
    \/ \E i \in RunIds, cfg \in Configs :
           RunGetMessagesForCompaction(i, cfg[1], cfg[2])
           /\ UNCHANGED <<tenantVars, stateVars, aggVars, engineVars, restVars>>
    \/ \E i \in RunIds :
           RunGetCompactedSummary(i) /\ UNCHANGED <<tenantVars, stateVars, aggVars, engineVars, restVars>>
    \/ \E i \in RunIds, response \in LLMResponses :
           RunCompactMessages(i, response) /\ UNCHANGED <<tenantVars, stateVars, aggVars, engineVars, restVars>>

SpecRace == Init /\ [][NextRace]_vars

----------------------------------------------------------------------------
(* WorkflowState: what the nodes of one execution have recorded.  A node
   output is a dict, [dict |-> keys to values], or a text, [str |-> text]. *)

IsDictOutput(output) == "dict" \in DOMAIN output

NodeOutputs == {[dict |-> [a |-> "1"]], [dict |-> [a |-> "2", b |-> "3"]], [str |-> "x"]}

get_node_output(node_id) ==
    IF node_id \in DOMAIN node_outputs THEN node_outputs[node_id] ELSE None

InPath(node_id) == \E i \in 1..Len(execution_path) : execution_path[i] = node_id

set_node_output_once(node_id, output) ==
    /\ node_outputs' = node_outputs @@ (node_id :> output)
    /\ execution_path' = IF InPath(node_id) THEN execution_path
                         ELSE Append(execution_path, node_id)
    /\ UNCHANGED node_inputs

set_node_output_always_appending(node_id, output) ==
    /\ node_outputs' = (node_id :> output) @@ node_outputs
    /\ execution_path' = Append(execution_path, node_id)
    /\ UNCHANGED node_inputs

set_node_output(node_id, output) ==
    /\ node_outputs' = (node_id :> output) @@ node_outputs
    /\ execution_path' = IF InPath(node_id) THEN execution_path
                         ELSE Append(execution_path, node_id)
    /\ UNCHANGED node_inputs

set_node_input(node_id, input_data) == (node_id :> input_data) @@ node_inputs

----------------------------------------------------------------------------
(* AggregatorNode: joins the branches of a graph.  The graph has the nodes
   s1, s2, s3 and the Aggregator; "ghost" names no node of the graph. *)

AggregatorId == "agg"
GraphNodes == {"s1", "s2", "s3", AggregatorId}
WorkNodes == GraphNodes \ {AggregatorId}

SourceLists == {<<>>, <<"s1", "s2">>, <<"s1", "s2", "s3">>}
RequiredLists == {<<>>, <<"s1">>, <<"s3">>, <<"ghost">>}
Strategies == {"merge", "list", "concat", "custom"}

AggConfigs ==
    [source_nodes : SourceLists, requiredSources : RequiredLists,
     requireAllInputs : BOOLEAN, aggregationStrategy : Strategies]

SeqSet(seq) == {seq[i] : i \in 1..Len(seq)}

\* the source nodes the graph's edges declare for the Aggregator
get_source_nodes == agg_config.source_nodes

HasOutput(node_id) == get_node_output(node_id) # None

\* the default readiness of a node: every declared source has recorded output
BaseNode_check_if_requirement_satisfied ==
    \A source_id \in SeqSet(get_source_nodes) : HasOutput(source_id)

ready_when_any_node_has_output ==
    \E source_id \in WorkNodes : HasOutput(source_id)

check_if_requirement_satisfied ==
    IF agg_config.requireAllInputs THEN BaseNode_check_if_requirement_satisfied
    ELSE IF get_source_nodes = <<>> THEN TRUE
    ELSE \E source_id \in SeqSet(get_source_nodes) : HasOutput(source_id)

LogEntry(level, event, sources) == [level |-> level, event |-> event, sources |-> sources]

skip_logged_as_warning(require_all_inputs) == "warning"

\* the level at which a source without output is logged
skip_log_level(require_all_inputs) == IF require_all_inputs THEN "warning" ELSE "info"

\* the outputs of the sources that have one, in the order of source_nodes,
\* and what is logged about the others
aggregate_immediately(source_nodes, require_all_inputs) ==
    Let(SelectSeq(source_nodes, LAMBDA id : ~HasOutput(id)), LAMBDA missing_sources :
      [keys |-> SelectSeq(source_nodes, HasOutput),
       at   |-> [id \in {n \in SeqSet(source_nodes) : HasOutput(n)} |-> node_outputs[id]],
       log  |-> MapSeq(missing_sources, LAMBDA id :
                    LogEntry(skip_log_level(require_all_inputs),
                             IF require_all_inputs THEN "not ready - skipping"
                             ELSE "not finished - excluded", <<id>>))
                \o (IF missing_sources = <<>> THEN <<>>
                    ELSE <<LogEntry(skip_log_level(require_all_inputs),
                                    IF require_all_inputs THEN "some not ready"
                                    ELSE "proceeding without", missing_sources)>>)])

merge_update_keeping_first(merged, output) ==
    IF IsDictOutput(output) THEN merged @@ output.dict
    ELSE merged @@ (output.str :> output.str)

merge_update(merged, output) ==
    IF IsDictOutput(output) THEN output.dict @@ merged
    ELSE (output.str :> output.str) @@ merged

RECURSIVE merge_from(_, _, _)
merge_from(keys, at, merged) ==
    IF keys = <<>> THEN merged
    ELSE merge_from(Tail(keys), at, merge_update(merged, at[Head(keys)]))

merge_outputs(outputs) == merge_from(outputs.keys, outputs.at, <<>>)

list_outputs(outputs) ==
    [outputs |-> MapSeq(outputs.keys, LAMBDA id : outputs.at[id]),
     node_mapping |-> [id \in DOMAIN outputs.at |->
                          (CHOOSE i \in 1..Len(outputs.keys) : outputs.keys[i] = id) - 1]]

concat_outputs(outputs) ==
    [concatenated_output |-> MapSeq(outputs.keys, LAMBDA id :
                                 IF IsDictOutput(outputs.at[id]) THEN [str_of |-> outputs.at[id].dict]
                                 ELSE [text |-> outputs.at[id].str]),
     source_outputs |-> [keys |-> outputs.keys, at |-> outputs.at]]

apply_aggregation_strategy(outputs, aggregation_strategy) ==
    IF aggregation_strategy = "merge" THEN merge_outputs(outputs)
    ELSE IF aggregation_strategy = "list" THEN list_outputs(outputs)
    ELSE IF aggregation_strategy = "concat" THEN concat_outputs(outputs)
    ELSE merge_outputs(outputs)

\* the source nodes process works on: the declared ones, else every node
\* with a recorded output, in the order of recording
process_source_nodes ==
    IF get_source_nodes # <<>> THEN get_source_nodes ELSE execution_path

no_required_sources_missing(required_sources, source_nodes) == <<>>

missing_required_sources(required_sources, source_nodes) ==
    SelectSeq(required_sources, LAMBDA id : id \notin SeqSet(source_nodes))

ProcessOutcome(result, node_input, log) ==
    [op |-> "process", result |-> result, node_input |-> node_input, log |-> log]

process_aggregated(config, source_nodes, outputs) ==
    Let(apply_aggregation_strategy(outputs, config.aggregationStrategy), LAMBDA aggregated_outputs :
      ProcessOutcome(
        [aggregated_outputs |-> aggregated_outputs,
         source_nodes |-> source_nodes,
         aggregation_strategy |-> config.aggregationStrategy,
         count |-> Cardinality(DOMAIN aggregated_outputs)],
        [source_nodes |-> source_nodes, aggregation_strategy |-> config.aggregationStrategy],
        outputs.log))

\* AggregatorNode.process: what it returns, the node input it records (None
\* when it records none) and what it logs
process(config) ==
    Let(process_source_nodes, LAMBDA source_nodes :
      IF source_nodes = <<>>
      THEN ProcessOutcome([error |-> [msg |-> "No source nodes found"], aggregated_outputs |-> <<>>],
                          None, <<LogEntry("warning", "no source nodes", <<>>)>>)
      ELSE Let(missing_required_sources(config.requiredSources, source_nodes), LAMBDA missing_sources :
        IF config.requiredSources # <<>> /\ missing_sources # <<>>
        THEN ProcessOutcome([error |-> [msg |-> "Required source nodes not found",
                                        missing |-> SeqSet(missing_sources)],
                             aggregated_outputs |-> <<>>],
                            None, <<LogEntry("error", "required not found", missing_sources)>>)
        ELSE process_aggregated(config, source_nodes,
                 aggregate_immediately(source_nodes, config.requireAllInputs))))

\* a node of a branch finishes and its output is recorded, once per execution
SourceFinishes(node_id, output) ==
    /\ agg_config # None
    /\ ~HasOutput(node_id)
    /\ set_node_output(node_id, output)
    /\ UNCHANGED <<runs, aggVars, engineVars>>

\* the engine asks whether the Aggregator can run
CheckReady ==
    /\ agg_config # None
    /\ agg_last.op \in {"none", "check"}
    /\ agg_last' = [op |-> "check", ready |-> check_if_requirement_satisfied]
    /\ UNCHANGED <<runs, stateVars, agg_config, engineVars>>

RecordProcess(outcome) ==
    /\ agg_last' = outcome
    /\ node_inputs' = IF outcome.node_input = None THEN node_inputs
                      ELSE set_node_input(AggregatorId, outcome.node_input)
    /\ UNCHANGED <<runs, node_outputs, execution_path, agg_config, engineVars>>

\* the engine runs the Aggregator, once, when it is ready
Process ==
    /\ agg_config # None
    /\ agg_last.op \in {"none", "check"}
    /\ check_if_requirement_satisfied
    /\ RecordProcess(process(agg_config))

AggInit ==
    /\ MemInit /\ TenantIdle
    /\ runs = [i \in RunIds |-> IdleRun]
    /\ StateIdle
    /\ agg_config \in AggConfigs
    /\ agg_last = NoCall
    /\ EngineIdle
    /\ RestIdle

NextAggregator ==
    \/ \E node_id \in WorkNodes, output \in NodeOutputs :
           SourceFinishes(node_id, output) /\ UNCHANGED <<memVars, tenantVars, restVars>>
    \/ CheckReady /\ UNCHANGED <<memVars, tenantVars, restVars>>
    \/ Process /\ UNCHANGED <<memVars, tenantVars, restVars>>

SpecAggregator == AggInit /\ [][NextAggregator]_vars

----------------------------------------------------------------------------
(* The process(config) methods of the other node kinds.  A configuration is
   given by the one required parameter it lacks ("none": complete); the
   collaborators a node calls (file extraction, model provider, model, input
   validation, memory, ticketing API) either answer, answer with nothing, or
   raise. *)

NodeKinds == {"OpenAPINode", "ChatInputNode", "LLMModelNode", "AgentNode", "SetStateNode", "ZendeskToolNode"}
Parameters == {"providerId", "query", "serverFile", "states", "subject", "description"}
MissingParameter == {"none"} \cup Parameters
Externals == {"ok", "empty", "raises"}

\* process returned result
Returned(result, node_input, node_output) ==
    [raised |-> FALSE, exception |-> "", result |-> result,
     node_input |-> node_input, node_output |-> node_output]

\* process raised exception to its caller
Raised(exception, node_input, node_output) ==
    [raised |-> TRUE, exception |-> exception, result |-> None,
     node_input |-> node_input, node_output |-> node_output]

OpenAPINode_process(missing, external) ==
    IF missing \in {"providerId", "query", "serverFile"}
    THEN Raised("AppException(MISSING_PARAMETER)", None, None)
    ELSE IF external = "raises"
    THEN Returned([dict |-> [status |-> "500", error |-> "OpenAPI node execution failed"]], None, None)
    ELSE IF external = "empty"
    THEN Returned([dict |-> [status |-> "500", error |-> "Failed to load OpenAPI specification"]], None, None)
    ELSE Returned([dict |-> [status |-> "200", answer |-> "answer", query |-> "query"]], None, None)

\* validate_input_schema or the memory raises; a ValueError is recorded as the
\* node's output and raised again
ChatInputNode_process(missing, external) ==
    IF external = "raises"
    THEN Raised("ValueError", None, [dict |-> [error |-> "ValueError"]])
    ELSE Returned([dict |-> [message |-> "validated"]], [dict |-> [message |-> "validated"]], None)

LLMModelNode_process(missing, external) ==
    IF missing = "providerId" THEN Returned([str |-> "Error: MISSING_PARAMETER"], None, None)
    ELSE IF external = "raises" THEN Returned([str |-> "Error: exception"], None, None)
    ELSE Returned([str |-> "response.content"], None, None)

AgentNode_process(missing, external) ==
    IF external = "raises"
    THEN Returned([dict |-> [error |-> "Error: exception"]],
                  [dict |-> [system_prompt |-> "s", prompt |-> "p", tools_reference |-> "t"]], None)
    ELSE Returned([dict |-> [message |-> IF external = "empty" THEN "Something went wrong"
                                         ELSE "response", steps |-> "steps"]],
                  [dict |-> [system_prompt |-> "s", prompt |-> "p", tools_reference |-> "t"]], None)

SetStateNode_process(missing, external) ==
    IF missing = "states"
    THEN Returned([dict |-> [updated |-> "[]", error |-> "No states configured"]], None, None)
    ELSE IF external = "raises"
    THEN Returned([dict |-> [status |-> "error", error |-> "Error updating stateful values",
                             updated |-> "{}"]], None, None)
    ELSE Returned([dict |-> [status |-> "success", updated |-> "{..}", count |-> "1"]], None, None)

ZendeskToolNode_process(missing, external) ==
    IF missing \in {"subject", "description"}
    THEN Returned([dict |-> [status |-> "400", data |-> "{error}"]], None, None)
    ELSE IF external = "raises"
    THEN Returned([dict |-> [status |-> "500", data |-> "{error}"]], None, None)
    ELSE Returned([dict |-> [status |-> "201", data |-> "{ticket}"]], None, None)

node_process(kind, missing, external) ==
    IF kind = "OpenAPINode" THEN OpenAPINode_process(missing, external)
    ELSE IF kind = "ChatInputNode" THEN ChatInputNode_process(missing, external)
    ELSE IF kind = "LLMModelNode" THEN LLMModelNode_process(missing, external)
    ELSE IF kind = "AgentNode" THEN AgentNode_process(missing, external)
    ELSE IF kind = "SetStateNode" THEN SetStateNode_process(missing, external)
    ELSE ZendeskToolNode_process(missing, external)

RecordNodeProcess(kind, missing, external, outcome) ==
    /\ node_call' = [op |-> "process", kind |-> kind, missing |-> missing,
                     external |-> external, outcome |-> outcome]
    /\ node_inputs' = IF outcome.node_input = None THEN node_inputs
                      ELSE set_node_input(kind, outcome.node_input)
    /\ IF outcome.node_output = None THEN UNCHANGED <<node_outputs, execution_path>>
       ELSE /\ node_outputs' = (kind :> outcome.node_output) @@ node_outputs
            /\ execution_path' = IF InPath(kind) THEN execution_path
                                 ELSE Append(execution_path, kind)
    /\ UNCHANGED <<runs, aggVars, exec>>

\* the engine calls process(config) of the node of this kind
NodeProcess(kind, missing, external) ==
    RecordNodeProcess(kind, missing, external, node_process(kind, missing, external))

NextNodes ==
    \/ \E kind \in NodeKinds, missing \in MissingParameter, external \in Externals :
           NodeProcess(kind, missing, external) /\ UNCHANGED <<memVars, tenantVars, restVars>>

SpecNodes == Init /\ [][NextNodes]_vars

----------------------------------------------------------------------------
(* WorkflowState used directly: any caller may record any node's output or
   input, any number of times. *)

\* what a caller may record as a node's output
RecordedOutputs == NodeOutputs \cup {None}

\* the nodes whose outputs and inputs the callers record
StateNodes == {"s1", "s2"}

SetNodeOutput(node_id, output) ==
    /\ set_node_output(node_id, output)
    /\ node_call' = [op |-> "set_node_output", node_id |-> node_id, output |-> output,
                     replaced |-> IF node_id \in DOMAIN node_outputs
                                  THEN [was |-> node_outputs[node_id]] ELSE None]
    /\ UNCHANGED <<runs, aggVars, exec>>

SetNodeInput(node_id, input_data) ==
    /\ node_inputs' = set_node_input(node_id, input_data)
    /\ node_call' = [op |-> "set_node_input", node_id |-> node_id]
    /\ UNCHANGED <<runs, aggVars, exec, node_outputs, execution_path>>

NextState ==
    \/ \E node_id \in StateNodes, output \in RecordedOutputs :
           SetNodeOutput(node_id, output) /\ UNCHANGED <<memVars, tenantVars, restVars>>
    \/ \E node_id \in StateNodes, input_data \in {[dict |-> [a |-> "1"]]} :
           SetNodeInput(node_id, input_data) /\ UNCHANGED <<memVars, tenantVars, restVars>>

SpecState == Init /\ [][NextState]_vars

----------------------------------------------------------------------------
(* The graph executor and its two entry points.  The graph: three nodes
   without sources (s1, s2, s3), the Aggregator, and the terminal chat-output
   node "out", fed by the Aggregator or by nothing. *)

Terminal == "out"
ExecNodes == WorkNodes \cup {AggregatorId, Terminal}
ScanOrders == {<<"s1", "s2", "s3", "agg", "out">>, <<"out", "agg", "s3", "s2", "s1">>}
TerminalSources == {<<>>, <<AggregatorId>>}
ExecConfigs == {config \in AggConfigs : config.aggregationStrategy = "merge"}

\* what a node without sources produces: an output, or nothing
WorkOutputs == {[dict |-> [a |-> "1"]], None}

\* run_workflow: the repository has no workflow of this id
workflow_not_found == [status |-> "error", message |-> "Workflow with ID not found"]

chat_output_without_status(input_data) ==
    IF input_data = None THEN None ELSE [response |-> input_data]

\* ChatOutputNodeProcessor.process on the input of its connected edges
ChatOutputNodeProcessor_process(input_data) ==
    IF input_data = None THEN None
    ELSE [status |-> "success", response |-> input_data,
          agent_id |-> "workflow_id", thread_id |-> "thread_id"]

\* the error the executor reports when a pass made no node ready
StallError == [status |-> "error", error |-> "StallError", message |-> "no node is ready"]

Started(entry, order, terminal_sources) ==
    [pc |-> "scan", entry |-> entry, order |-> order, terminal_sources |-> terminal_sources,
     at |-> 1, executed |-> {}, times |-> [n \in ExecNodes |-> 0], progressed |-> FALSE,
     passes |-> 1, result |-> None]

\* entry point "run by definition id"
RunWorkflow(found, order, terminal_sources) ==
    /\ exec.pc = "idle"
    /\ exec' = IF found THEN Started("run_workflow", order, terminal_sources)
               ELSE [ExecIdle EXCEPT !.pc = "done", !.entry = "run_workflow",
                                     !.result = workflow_not_found]
    /\ UNCHANGED <<runs, stateVars, aggVars, node_call>>

\* entry point "run from inline definition"
RunFromConfiguration(order, terminal_sources) ==
    /\ exec.pc = "idle"
    /\ exec' = Started("run_from_configuration", order, terminal_sources)
    /\ UNCHANGED <<runs, stateVars, aggVars, node_call>>

\* the readiness check of a node of the graph
IsReady(node_id) ==
    IF node_id = AggregatorId THEN check_if_requirement_satisfied
    ELSE IF node_id = Terminal THEN \A source_id \in SeqSet(exec.terminal_sources) : HasOutput(source_id)
    ELSE TRUE

mark_nothing(node_id) == exec.executed

\* the node has been executed in this execution
mark_executed(node_id) == exec.executed \cup {node_id}

Advance(node_id) ==
    exec' = [exec EXCEPT !.at = @ + 1, !.executed = mark_executed(node_id),
                         !.times[node_id] = @ + 1, !.progressed = TRUE]

\* the input the terminal node gets from its connected edges
TerminalInput ==
    IF exec.terminal_sources = <<>> THEN None
    ELSE get_node_output(exec.terminal_sources[Len(exec.terminal_sources)])

RecordIfAny(node_id, output) ==
    IF output = None THEN UNCHANGED <<node_outputs, execution_path>>
    ELSE /\ node_outputs' = (node_id :> output) @@ node_outputs
         /\ execution_path' = IF InPath(node_id) THEN execution_path
                              ELSE Append(execution_path, node_id)

ExecuteAggregator(outcome) ==
    /\ Advance(AggregatorId)
    /\ agg_last' = outcome
    /\ node_inputs' = IF outcome.node_input = None THEN node_inputs
                      ELSE set_node_input(AggregatorId, outcome.node_input)
    /\ RecordIfAny(AggregatorId, [dict |-> outcome.result])
    /\ UNCHANGED <<runs, agg_config, node_call>>

ExecuteTerminal(output) ==
    /\ Advance(Terminal)
    /\ RecordIfAny(Terminal, output)
    /\ UNCHANGED <<runs, aggVars, node_inputs, node_call>>

ExecuteWork(node_id, output) ==
    /\ Advance(node_id)
    /\ RecordIfAny(node_id, output)
    /\ UNCHANGED <<runs, aggVars, node_inputs, node_call>>

\* one step of a pass: the next node of the scan is executed if it has not
\* been executed and is ready, and passed over otherwise
ScanNode(node_id, output) ==
    /\ exec.pc = "scan"
    /\ exec.at <= Len(exec.order)
    /\ node_id = exec.order[exec.at]
    /\ IF node_id \in exec.executed \/ ~IsReady(node_id)
       THEN /\ exec' = [exec EXCEPT !.at = @ + 1]
            /\ UNCHANGED <<runs, stateVars, aggVars, node_call>>
       ELSE IF node_id = AggregatorId THEN ExecuteAggregator(process(agg_config))
       ELSE IF node_id = Terminal
            THEN ExecuteTerminal(ChatOutputNodeProcessor_process(TerminalInput))
       ELSE ExecuteWork(node_id, output)

\* the end of a pass: stop with the terminal node's output, stop with a
\* StallError when the pass executed nothing, else scan again
EndPass ==
    /\ exec.pc = "scan"
    /\ exec.at > Len(exec.order)
    /\ exec' = IF HasOutput(Terminal)
               THEN [exec EXCEPT !.pc = "done", !.result = node_outputs[Terminal]]
               ELSE IF ~exec.progressed
               THEN [exec EXCEPT !.pc = "done", !.result = StallError]
               ELSE [exec EXCEPT !.at = 1, !.progressed = FALSE, !.passes = @ + 1]
    /\ UNCHANGED <<runs, stateVars, aggVars, node_call>>

ExecInit ==
    /\ MemInit /\ backend = "memory" /\ TenantIdle
    /\ runs = [i \in RunIds |-> IdleRun]
    /\ StateIdle
    /\ agg_config \in ExecConfigs
    /\ agg_last = NoCall
    /\ EngineIdle
    /\ RestIdle

NextExecutor ==
    \/ \E found \in BOOLEAN, order \in ScanOrders, terminal_sources \in TerminalSources :
           RunWorkflow(found, order, terminal_sources) /\ UNCHANGED <<memVars, tenantVars, restVars>>
    \/ \E order \in ScanOrders, terminal_sources \in TerminalSources :
           RunFromConfiguration(order, terminal_sources) /\ UNCHANGED <<memVars, tenantVars, restVars>>
    \/ \E node_id \in ExecNodes, output \in WorkOutputs :
           ScanNode(node_id, output) /\ UNCHANGED <<memVars, tenantVars, restVars>>
    \/ EndPass /\ UNCHANGED <<memVars, tenantVars, restVars>>

SpecExecutor == ExecInit /\ [][NextExecutor]_vars

\* the executor is not suspended for ever between two of its steps
SpecExecutorFair == SpecExecutor /\ WF_vars(NextExecutor)

----------------------------------------------------------------------------
(* cleanup_stale_conversations_async: the periodic task that deletes or
   finalizes the conversations left in progress.  A conversation has a status,
   the minutes since its last update, and a transcription: a JSON list of
   len messages, or text that is no JSON. *)

ConversationIds == {"c1", "c2", "c3"}
Statuses == {"in_progress", "finalized"}
Ages == {StaleMinutes - 1, StaleMinutes, StaleMinutes + 1}
Transcriptions == {[valid |-> TRUE, len |-> MinMessages - 1], [valid |-> TRUE, len |-> MinMessages],
                   [valid |-> FALSE, len |-> 0]}
Conversations == [status : Statuses, age : Ages, transcription : Transcriptions]

\* ConversationService.get_stale_conversations(cutoff_time): in progress and
\* last updated before the cutoff
get_stale_conversations ==
    {id \in DOMAIN conversations :
        conversations[id].status = "in_progress" /\ conversations[id].age > StaleMinutes}

too_short_up_to_three(message_count) == message_count <= MinMessages

\* the conversations the task deletes rather than finalizes
too_short(message_count) == message_count < MinMessages

\* the stale conversations whose processing raises: json.loads fails, or the
\* service call does
failed_conversations(stale_conversations, raising) ==
    {id \in stale_conversations : ~conversations[id].transcription.valid \/ id \in raising}

deleted_conversations(stale_conversations, failed) ==
    {id \in stale_conversations \ failed : too_short(conversations[id].transcription.len)}

RecordCleanup(stale, failed, deleted) ==
    /\ conversations' = [id \in DOMAIN conversations \ deleted |->
                            IF id \in stale \ failed
                            THEN [conversations[id] EXCEPT !.status = "finalized"]
                            ELSE conversations[id]]
    /\ cleanup' = [op |-> "cleanup", failed |-> failed,
                   result |-> [status |-> "completed",
                               deleted_count |-> Cardinality(deleted),
                               finalized_count |-> Cardinality(stale \ (failed \cup deleted)),
                               failed_count |-> Cardinality(failed)]]

CleanupWith(stale, failed) ==
    RecordCleanup(stale, failed, deleted_conversations(stale, failed))

\* one run of the task; raising: the conversations whose delete or finalize
\* call raises
cleanup_stale_conversations_async(raising) ==
    CleanupWith(get_stale_conversations,
                failed_conversations(get_stale_conversations, raising))

\* a conversation is stored
CreateConversation(id, conversation) ==
    /\ id \notin DOMAIN conversations
    /\ conversations' = (id :> conversation) @@ conversations
    /\ UNCHANGED cleanup

NextCleanup ==
    \/ \E id \in ConversationIds, conversation \in Conversations :
           CreateConversation(id, conversation)
           /\ UNCHANGED <<memVars, tenantVars, runs, stateVars, aggVars, engineVars, workflow_states, fetch, token_call, durable>>
    \/ \E raising \in SUBSET ConversationIds :
           cleanup_stale_conversations_async(raising)
           /\ UNCHANGED <<memVars, tenantVars, runs, stateVars, aggVars, engineVars, workflow_states, fetch, token_call, durable>>

SpecCleanup == Init /\ [][NextCleanup]_vars

----------------------------------------------------------------------------
(* The keys of one durable thread and their expiry.  A key exists or not; an
   existing key expires at expire_at, or never when expire_at = 0.  Time is
   counted in days; every operation is called on a later day than the last. *)

\* LPUSH / HSET / HINCRBY: creates the key when absent, and leaves its expiry alone
redis_write(key) == IF key.exists THEN key ELSE [exists |-> TRUE, expire_at |-> 0]

\* EXPIRE key 86400 * 30: nothing on a key that does not exist
redis_expire(key, now) ==
    IF key.exists THEN [key EXCEPT !.expire_at = now + ExpireDays] ELSE key

\* _initialize_conversation: creates the info hash, with its expiry, unless
\* this instance is initialized or the key exists
initialize_conversation(d) ==
    IF d.initialized \/ d.info.exists THEN [d EXCEPT !.initialized = TRUE]
    ELSE [d EXCEPT !.info = redis_expire(redis_write(d.info), d.now), !.initialized = TRUE]

\* whether the call of _initialize_conversation writes the info hash
initialize_writes(d) == ~d.initialized /\ ~d.info.exists

Redis_add_message_keys(d) ==
    Let(initialize_conversation(d), LAMBDA i :
        [i EXCEPT !.messages = redis_expire(redis_write(i.messages), i.now),
                  !.info = redis_write(i.info),
                  !.op = "add_message", !.wrote = {"messages", "info"}])

Redis_set_metadata_keys(d) ==
    Let(initialize_conversation(d), LAMBDA i :
        [i EXCEPT !.metadata = redis_expire(redis_write(i.metadata), i.now),
                  !.op = "set_metadata",
                  !.wrote = IF initialize_writes(d) THEN {"metadata", "info"}
                            ELSE {"metadata"}])

Redis_clear_keys(d) ==
    [d EXCEPT !.messages = NoKey, !.metadata = NoKey,
              !.info = redis_expire(redis_write(d.info), d.now),
              !.op = "clear", !.wrote = {"info"}]

Redis_increment_executions_keys(d) ==
    [d EXCEPT !.info = redis_write(d.info), !.op = "increment_executions", !.wrote = {"info"}]

\* the operation is called, a day or more after the last one
DurableWrite(after) ==
    /\ durable.now < MaxDays
    /\ durable' = after
    /\ UNCHANGED <<conversations, cleanup>>

Later(d, days) == [d EXCEPT !.now = @ + days]

\* another process, or the same after a restart, constructs its instance
NewInstance ==
    /\ durable.initialized
    /\ durable' = [durable EXCEPT !.initialized = FALSE]
    /\ UNCHANGED <<conversations, cleanup>>

NextDurable ==
    \/ \E days \in 1..2 : DurableWrite(Redis_add_message_keys(Later(durable, days)))
           /\ UNCHANGED <<memVars, tenantVars, runs, stateVars, aggVars, engineVars, workflow_states, fetch, token_call>>
    \/ \E days \in 1..2 : DurableWrite(Redis_set_metadata_keys(Later(durable, days)))
           /\ UNCHANGED <<memVars, tenantVars, runs, stateVars, aggVars, engineVars, workflow_states, fetch, token_call>>
    \/ \E days \in 1..2 : DurableWrite(Redis_clear_keys(Later(durable, days)))
           /\ UNCHANGED <<memVars, tenantVars, runs, stateVars, aggVars, engineVars, workflow_states, fetch, token_call>>
    \/ \E days \in 1..2 : DurableWrite(Redis_increment_executions_keys(Later(durable, days)))
           /\ UNCHANGED <<memVars, tenantVars, runs, stateVars, aggVars, engineVars, workflow_states, fetch, token_call>>
    \/ NewInstance /\ UNCHANGED <<memVars, tenantVars, runs, stateVars, aggVars, engineVars, workflow_states, fetch, token_call>>

SpecDurable == Init /\ [][NextDurable]_vars

----------------------------------------------------------------------------
(* calculate_history_tokens.  A config is a dict that has, or lacks, the keys
   tokenBudget and conversationHistoryTokens; the prompts are given by their
   lengths and counted by the token counter. *)

\* values of tokenBudget and conversationHistoryTokens in a config
TokenBudgets == {-3, 0, 6, 12, 20}
HistoryTokens == {-3, 0, 5, 12}
\* lengths of the system and the user prompt: 0, 2, 4 and 10 tokens
PromptChars == {0, 8, 15, 40}

\* the configs with each of the two keys present or absent
TokenConfigs ==
    {<<>>}
    \cup {("tokenBudget" :> t) : t \in TokenBudgets}
    \cup {("conversationHistoryTokens" :> h) : h \in HistoryTokens}
    \cup {("tokenBudget" :> t) @@ ("conversationHistoryTokens" :> h) : t \in TokenBudgets, h \in HistoryTokens}

\* config.get(key, default)
config_get(config, key, default) == IF key \in DOMAIN config THEN config[key] ELSE default

reduce_without_floor(total_budget, requested_history_tokens, system_tokens, user_tokens) ==
    [result |-> total_budget - system_tokens - user_tokens, warned |-> TRUE]

\* if needed > total_budget: the reduced allocation, floored at 0, and a warning
reduce_history(total_budget, requested_history_tokens, system_tokens, user_tokens) ==
    [result |-> Max(0, total_budget - system_tokens - user_tokens), warned |-> TRUE]

\* the allocation for the counted prompts and the configured numbers
actual_history_tokens(total_budget, requested_history_tokens, system_tokens, user_tokens) ==
    IF system_tokens + user_tokens + requested_history_tokens > total_budget
    THEN reduce_history(total_budget, requested_history_tokens, system_tokens, user_tokens)
    ELSE [result |-> requested_history_tokens, warned |-> FALSE]

calculate_history_tokens(config, system_prompt, user_prompt) ==
    actual_history_tokens(config_get(config, "tokenBudget", TotalTokenDefault),
                          config_get(config, "conversationHistoryTokens", TotalConversationHistoryDefault),
                          count_tokens(system_prompt), count_tokens(user_prompt))

\* the function is called
CalculateHistoryTokens(config, system_prompt, user_prompt) ==
    /\ token_call' = [op |-> "calculate_history_tokens",
                  total_budget |-> config_get(config, "tokenBudget", TotalTokenDefault),
                  requested_history_tokens
                      |-> config_get(config, "conversationHistoryTokens", TotalConversationHistoryDefault),
                  system_tokens |-> count_tokens(system_prompt),
                  user_tokens |-> count_tokens(user_prompt),
                  returned |-> calculate_history_tokens(config, system_prompt, user_prompt)]
    /\ UNCHANGED <<conversations, cleanup, durable>>

NextTokens ==
    \E config \in TokenConfigs, system_prompt \in PromptChars, user_prompt \in PromptChars :
        /\ CalculateHistoryTokens(config, system_prompt, user_prompt)
        /\ UNCHANGED <<memVars, tenantVars, runs, stateVars, aggVars, engineVars, workflow_states, fetch>>

SpecTokens == Init /\ [][NextTokens]_vars

----------------------------------------------------------------------------
(* RedisConversationMemory.get_messages_for_compaction, await by await, while
   other executions append to the thread and store summaries *)

\* memory.set_compacted_summary(summary), the summary counting n messages
SetCompactedSummary(n) ==
    /\ n <= Total
    /\ IF backend = "memory"
       THEN metadata' = set_compacted_summary(backend, [empty_summary EXCEPT !.compacted_message_count = n])
            /\ UNCHANGED redis_meta
       ELSE redis_meta' = set_compacted_summary(backend, [empty_summary EXCEPT !.compacted_message_count = n])
            /\ UNCHANGED metadata
    /\ last_op' = [NoOp EXCEPT !.op = "set_compacted_summary"]
    /\ UNCHANGED <<backend, messages, redis_list, clock, rounds>>

\* total_messages = await redis.llen(self._message_key)
FetchLen(keep_recent) ==
    /\ backend = "redis"
    /\ fetch.pc \in {"idle", "done"}
    /\ fetch' = [NoFetch EXCEPT !.pc = "summary", !.keep_recent = keep_recent,
                                !.total_messages = Len(redis_list)]
    /\ UNCHANGED memVars

\* start_index as the summary read now gives it
start_index_of(summary) == IF Truthy(summary) THEN compacted_message_count(summary) ELSE 0

\* summary = await self.get_compacted_summary(); start_index and split_index
FetchSummary ==
    /\ fetch.pc = "summary"
    /\ fetch' = [fetch EXCEPT
                    !.start_index = start_index_of(Redis_get_compacted_summary(redis_meta)),
                    !.split_index = Max(start_index_of(Redis_get_compacted_summary(redis_meta)),
                                        fetch.total_messages - fetch.keep_recent),
                    !.pc = IF Max(start_index_of(Redis_get_compacted_summary(redis_meta)),
                                  fetch.total_messages - fetch.keep_recent)
                              <= start_index_of(Redis_get_compacted_summary(redis_meta))
                           THEN "recent" ELSE "range"]
    /\ UNCHANGED memVars

\* await redis.lrange(key, redis_start, redis_end) with the indices computed
\* from the length read before, reversed and parsed
lrange_of_length_read(list, total_messages, start_index, split_index) ==
    MapSeq(Reverse(LRange(list, redis_start(total_messages, split_index),
                          redis_end(total_messages, start_index))),
           JsonLoads)

FetchRange ==
    /\ fetch.pc = "range"
    /\ fetch' = [fetch EXCEPT
                    !.to_compact = lrange_of_length_read(redis_list, fetch.total_messages,
                                                         fetch.start_index, fetch.split_index),
                    !.pc = "recent"]
    /\ UNCHANGED memVars

\* to_keep = await self.get_messages(max_messages=keep_recent); return
FetchRecent ==
    /\ fetch.pc = "recent"
    /\ fetch' = [fetch EXCEPT !.to_keep = Redis_get_messages(redis_list, fetch.keep_recent, NoRoles),
                              !.pc = "done"]
    /\ UNCHANGED memVars

NextInterleaved ==
    \/ \E role \in Roles, content \in Contents :
           clock < MaxAppends /\ add_message(role, content) /\ UNCHANGED <<tenantVars, wfVars>>
    \/ \E n \in 1..2 :
           SetCompactedSummary(n) /\ UNCHANGED <<tenantVars, wfVars>>
    \/ \E keep_recent \in 0..2 :
           FetchLen(keep_recent)
           /\ UNCHANGED <<tenantVars, runs, stateVars, aggVars, engineVars, conversations, cleanup, workflow_states, token_call, durable>>
    \/ FetchSummary
           /\ UNCHANGED <<tenantVars, runs, stateVars, aggVars, engineVars, conversations, cleanup, workflow_states, token_call, durable>>
    \/ FetchRange
           /\ UNCHANGED <<tenantVars, runs, stateVars, aggVars, engineVars, conversations, cleanup, workflow_states, token_call, durable>>
    \/ FetchRecent
           /\ UNCHANGED <<tenantVars, runs, stateVars, aggVars, engineVars, conversations, cleanup, workflow_states, token_call, durable>>

SpecInterleaved == Init /\ [][NextInterleaved]_vars

----------------------------------------------------------------------------
(* clear() among the appends, the summaries stored and the compacting fetches *)

\* InMemoryConversationMemory.clear: the messages go, the metadata stays
InMemory_clear(msgs, meta) == [messages |-> <<>>, metadata |-> meta]

\* RedisConversationMemory.clear: the message list and the metadata hash are deleted
Redis_clear(list, meta) == [messages |-> <<>>, metadata |-> None]

Clear ==
    /\ IF backend = "memory"
       THEN /\ messages' = InMemory_clear(messages, metadata).messages
            /\ metadata' = InMemory_clear(messages, metadata).metadata
            /\ UNCHANGED <<redis_list, redis_meta>>
       ELSE /\ redis_list' = Redis_clear(redis_list, redis_meta).messages
            /\ redis_meta' = Redis_clear(redis_list, redis_meta).metadata
            /\ UNCHANGED <<messages, metadata>>
    /\ last_op' = [NoOp EXCEPT !.op = "clear", !.meta_before = StoredMeta]
    /\ UNCHANGED <<backend, clock, rounds>>

NextClear ==
    \/ \E role \in Roles, content \in Contents :
           clock < MaxAppends /\ add_message(role, content) /\ UNCHANGED <<tenantVars, wfVars>>
    \/ \E node \in {"llm", "agent"}, cfg \in Configs, response \in LLMResponses :
           NodeChatHistory(node, cfg[1], cfg[2], response) /\ UNCHANGED <<tenantVars, wfVars>>
    \/ \E n \in 1..2 :
           SetCompactedSummary(n) /\ UNCHANGED <<tenantVars, wfVars>>
    \/ Clear /\ UNCHANGED <<tenantVars, wfVars>>

SpecClear == Init /\ [][NextClear]_vars

----------------------------------------------------------------------------
(* WorkflowState.__init__ and the registry ConversationMemory._instances.
   An instance of ConversationMemory is named by the order of its creation. *)

\* the thread_id argument of a construction: left out, or given
Omitted == [given |-> FALSE, thread_id |-> ""]
Given(thread_id) == [given |-> TRUE, thread_id |-> thread_id]
ThreadIdArguments == {Omitted, Given("t1"), Given("t2")}

\* ConversationMemory.get_instance: the registry afterwards
ConversationMemory_get_instance(registry, created, thread_id) ==
    IF thread_id \in DOMAIN registry THEN registry
    ELSE (thread_id :> created + 1) @@ registry

\* ConversationMemory instances ever created
InstancesCreated(w) ==
    Cardinality({w.created[i].memory : i \in 1..Len(w.created)})

\* WorkflowState(thread_id, ...): the parameter is the argument, or the default
\* the def statement evaluated
WorkflowState_init(w, argument) ==
    Let(IF argument.given THEN argument.thread_id ELSE w.default_thread_id, LAMBDA thread_id :
    Let(ConversationMemory_get_instance(w.instances, InstancesCreated(w), thread_id), LAMBDA registry :
        [w EXCEPT !.draws = @ + 1,
                  !.instances = registry,
                  !.created = Append(@, [thread_id |-> thread_id,
                                         given |-> argument.given,
                                         execution_id |-> uuid4(w.draws + 1),
                                         memory |-> registry[thread_id]])]))

NewWorkflowState(argument) ==
    /\ Len(workflow_states.created) < MaxStates
    /\ workflow_states' = WorkflowState_init(workflow_states, argument)
    /\ UNCHANGED <<conversations, cleanup, fetch, token_call, durable>>

NextWorkflowStates ==
    \E argument \in ThreadIdArguments :
        /\ NewWorkflowState(argument)
        /\ UNCHANGED <<memVars, tenantVars, runs, stateVars, aggVars, engineVars>>

SpecWorkflowStates == Init /\ [][NextWorkflowStates]_vars

----------------------------------------------------------------------------
(* Properties *)

\* the stored compacted_message_count, 0 while no summary is stored
CompactedCount == IF Truthy(Summary) THEN compacted_message_count(Summary) ELSE 0

\* the n newest messages of the thread, oldest first
Newest(n) == SubSeq(History, Total - Min(n, Total) + 1, Total)

\* a history as the fetch hands it out: message dicts, or the lines of one text
Render(msgs, as_string) == IF as_string THEN AsString(msgs) ELSE msgs

RECURSIVE SumTokens(_)
SumTokens(msgs) ==
    IF msgs = <<>> THEN 0 ELSE message_tokens(Head(msgs)) + SumTokens(Tail(msgs))

\* the last operation on the thread was a compacting fetch by a node
NodeFetched == last_op.op = "node_chat_history"

\* ... with the default compactingThreshold and compactingKeepRecent
DefaultFetched ==
    /\ NodeFetched
    /\ last_op.threshold = DefaultThreshold
    /\ last_op.keep_recent = DefaultKeepRecent

\* the same node fetching again, nothing appended in between
SameFetchAgain(response) ==
    IF last_op.node = "llm"
    THEN LLMModelNode_get_chat_history_for_context(
             backend, Stored, StoredMeta, last_op.threshold, last_op.keep_recent,
             response, clock)
    ELSE AgentNode_get_chat_history_for_agent(
             backend, Stored, StoredMeta, last_op.threshold, last_op.keep_recent,
             response, clock)

\* C1: after a compacting fetch every stored message is accounted for exactly once:
\* the result is the summary message, if there is one, followed by exactly the
\* messages that come after the first compacted_message_count ones, so that no
\* message is both summarised and returned, and none is neither.
C1_AccountedExactlyOnce ==
    NodeFetched =>
        last_op.result = chat_history_with_compaction(
                             Summary, PySlice(History, CompactedCount, Total),
                             last_op.as_string)

\* C2: with threshold 20 and keepRecent 10, a compacting fetch on a thread of 25
\* messages with no summary stored before it stores a summary and returns the
\* synthetic system message rendered from it followed by the 10 newest messages,
\* oldest first.
C2_SummaryThenTenNewest ==
    (DefaultFetched /\ Total = 25 /\ last_op.meta_before = None) =>
        /\ Truthy(Summary)
        /\ last_op.result = Render(<<synthetic_system_message(Summary)>>
                                       \o Newest(DefaultKeepRecent),
                                   last_op.as_string)

\* C3: right after the compaction that a fetch triggers at 25 messages (threshold 20,
\* keepRecent 10), needs_compaction(20) is false, it is false for every total from
\* 25 up to 44, and it is true again at 45.
C3_QuietUntilTwentyMore ==
    (DefaultFetched /\ Total = 25 /\ last_op.compaction.attempted) =>
        /\ \A t \in 25..44 :
               ~needs_compaction(backend, [i \in 1..t |-> i], StoredMeta, DefaultThreshold)
        /\ needs_compaction(backend, [i \in 1..45 |-> i], StoredMeta, DefaultThreshold)

\* C4: the second compaction round of a thread compacts exactly the messages at
\* chronological positions [count of round 1, total - keepRecent), the count stored
\* after it is the count of round 1 plus the number of messages it compacted, and
\* the compacted range and the recent window do not overlap.
C4_SecondRoundAdditive ==
    (DefaultFetched /\ rounds = 2 /\ last_op.compaction.attempted) =>
        /\ Truthy(get_compacted_summary(backend, last_op.meta_before))
        /\ Truthy(Summary)
        /\ last_op.compaction.split[1] =
               PySlice(History,
                       compacted_message_count(
                           get_compacted_summary(backend, last_op.meta_before)),
                       Total - last_op.keep_recent)
        /\ compacted_message_count(Summary) =
               compacted_message_count(get_compacted_summary(backend, last_op.meta_before))
               + Len(last_op.compaction.split[1])
        /\ compacted_message_count(Summary) + Len(last_op.compaction.split[2]) <= Total

C7_KeysOfOwnTenant ==
    accesses # None =>
        /\ accesses.key
               = RedisConversationMemory(accesses.thread_id, accesses.tenant).message_key
        /\ accesses.data_of \in {accesses.tenant, "nobody"}

\* C8 as stated: for every N >= 0 the unfiltered read of the last N messages returns
\* exactly the min(N, total) newest messages, oldest first, on both backends.
C8_LastN_FromZero ==
    /\ (last_op.op = "get_messages" /\ ~last_op.roles.filter) =>
           last_op.result = Newest(last_op.max_messages)
    /\ last_op.op = "get_chat_history" =>
           last_op.result = Render(Newest(last_op.max_messages), last_op.as_string)

\* C8 amended: for every N >= 1 the unfiltered read of the last N messages returns
\* exactly the min(N, total) newest messages, oldest first, on both backends; N = 0
\* returns the whole history.
C8_LastN_FromOne ==
    /\ (last_op.op = "get_messages" /\ ~last_op.roles.filter) =>
           last_op.result = IF last_op.max_messages >= 1
                            THEN Newest(last_op.max_messages) ELSE History
    /\ last_op.op = "get_chat_history" =>
           last_op.result = Render(IF last_op.max_messages >= 1
                                   THEN Newest(last_op.max_messages) ELSE History,
                                   last_op.as_string)

\* a durable thread read for fewer messages than it holds
C8_Witness ==
    /\ backend = "redis"
    /\ last_op.op = "get_messages"
    /\ ~last_op.roles.filter
    /\ last_op.max_messages >= 2
    /\ last_op.max_messages < Total
    /\ Len(last_op.result) = last_op.max_messages

\* C9: with a budget > 0 the token counts of the returned messages sum to at most
\* the budget, unless the result is the newest message alone and that message
\* exceeds the budget by itself; the read does not fail, and the result is not empty
\* when the thread holds a message.
C9_WithinBudget ==
    (last_op.op = "get_chat_history_within_tokens" /\ last_op.token_budget > 0) =>
        /\ ~last_op.raised
        /\ last_op.result = Newest(Len(last_op.result))
        /\ \/ SumTokens(last_op.result) <= last_op.token_budget
           \/ /\ Len(last_op.result) = 1
              /\ message_tokens(last_op.result[1]) > last_op.token_budget
        /\ Total >= 1 => last_op.result # <<>>

\* a thread of which the budget admits several messages, not all
C9_Witness ==
    /\ last_op.op = "get_chat_history_within_tokens"
    /\ last_op.token_budget > 0
    /\ Len(last_op.result) >= 2
    /\ Len(last_op.result) < Total
    /\ SumTokens(History) > last_op.token_budget

CountOf(summary) == IF Truthy(summary) THEN compacted_message_count(summary) ELSE 0

\* C12: no compaction run, successful or failed, yields a summary to store whose
\* compacted_message_count is smaller than the count of the summary it started
\* from; a successful run adds the number of messages it compacted.
C12_CountNeverDecreases ==
    last_op.op = "compact_messages" =>
        /\ ~last_op.raised
        /\ CountOf(last_op.result) >= CountOf(last_op.meta_before)
        /\ ~last_op.compaction.failed =>
               CountOf(last_op.result)
                   = CountOf(last_op.meta_before) + Len(last_op.compaction.handed)

\* a successful run on a thread that already holds a summary
C12_Witness ==
    /\ last_op.op = "compact_messages"
    /\ ~last_op.compaction.failed
    /\ Truthy(last_op.meta_before)
    /\ CountOf(last_op.meta_before) = 2
    /\ Len(last_op.compaction.handed) = 1
    /\ CountOf(last_op.result) = 3

\* the Aggregator's declared sources that have a recorded output
ReadySources == {source_id \in SeqSet(agg_config.source_nodes) : source_id \in DOMAIN node_outputs}

\* the entries one source output adds to a merge
Contribution(output) == IF IsDictOutput(output) THEN output.dict ELSE (output.str :> output.str)

\* this step is a run of the Aggregator
ProcessStep == agg_last.op # "process" /\ agg_last'.op = "process"

\* this step is a readiness check of the Aggregator
CheckStep == agg_last'.op = "check" /\ UNCHANGED stateVars

\* the log says of this source that it was left out, and at which level
SkipLogged(log, source_id, level) ==
    \E i \in 1..Len(log) : log[i].sources = <<source_id>> /\ log[i].level = level

PartialMerge ==
    /\ ~agg_config.requireAllInputs
    /\ agg_config.aggregationStrategy = "merge"
    /\ agg_config.source_nodes # <<>>
    /\ SeqSet(agg_config.requiredSources) \subseteq SeqSet(agg_config.source_nodes)

\* C13: an Aggregator with requireAllInputs=false and the merge strategy that
\* runs while only some of its declared sources have output returns no error,
\* a merge whose entries are those of the sources with output and of no other,
\* and logs each source without output as left out, at info level.
C13_PartialMergeOfReadySources ==
    [][ProcessStep /\ PartialMerge =>
         /\ "error" \notin DOMAIN agg_last'.result
         /\ DOMAIN agg_last'.result.aggregated_outputs
              = UNION {DOMAIN Contribution(node_outputs[source_id]) : source_id \in ReadySources}
         /\ \A key \in DOMAIN agg_last'.result.aggregated_outputs :
              \E source_id \in ReadySources :
                  /\ key \in DOMAIN Contribution(node_outputs[source_id])
                  /\ Contribution(node_outputs[source_id])[key]
                       = agg_last'.result.aggregated_outputs[key]
         /\ \A source_id \in SeqSet(agg_config.source_nodes) :
              /\ SkipLogged(agg_last'.log, source_id, "info") <=> source_id \notin ReadySources
              /\ ~SkipLogged(agg_last'.log, source_id, "warning")
              /\ ~SkipLogged(agg_last'.log, source_id, "error")]_vars

\* two of three declared sources had output when the Aggregator merged
C13_Witness ==
    /\ agg_last.op = "process"
    /\ PartialMerge
    /\ Len(agg_config.source_nodes) = 3
    /\ "error" \notin DOMAIN agg_last.result
    /\ Len(agg_last.log) = 2
    /\ agg_last.log[1].sources = <<"s3">>
    /\ DOMAIN agg_last.result.aggregated_outputs = {"a", "b", "x"}

\* C14 as claimed: with requireAllInputs=false the Aggregator is ready if and
\* only if at least one of its source nodes has a recorded output; with
\* requireAllInputs=true it is not ready while a source node lacks one.
C14_ReadyIffSomeSourceHasOutput ==
    [][CheckStep =>
         /\ ~agg_config.requireAllInputs => (agg_last'.ready <=> ReadySources # {})
         /\ agg_config.requireAllInputs /\ ReadySources # SeqSet(agg_config.source_nodes)
              => ~agg_last'.ready]_vars

\* C14: with requireAllInputs=false the Aggregator is ready if and only if it
\* has no source nodes or at least one of them has a recorded output; with
\* requireAllInputs=true it is not ready while a source node lacks one.
C14_ReadyIffNoSourcesOrSomeHasOutput ==
    [][CheckStep =>
         /\ ~agg_config.requireAllInputs
              => (agg_last'.ready <=> agg_config.source_nodes = <<>> \/ ReadySources # {})
         /\ agg_config.requireAllInputs /\ ReadySources # SeqSet(agg_config.source_nodes)
              => ~agg_last'.ready]_vars

\* an Aggregator without source nodes was found ready with nothing recorded
C14_Witness ==
    /\ agg_last.op = "check"
    /\ ~agg_config.requireAllInputs
    /\ agg_config.source_nodes = <<>>
    /\ node_outputs = <<>>
    /\ agg_last.ready

\* C15: when requiredSources is set and a listed source has no recorded output
\* as the Aggregator runs, the result is a structured error; no aggregation
\* that leaves a required source out is returned.
C15_MissingRequiredOutputIsError ==
    [][ProcessStep /\ (\E source_id \in SeqSet(agg_config.requiredSources) :
                           source_id \notin DOMAIN node_outputs)
         => "error" \in DOMAIN agg_last'.result]_vars

\* C16: when requiredSources lists a node that is not in the graph, process
\* returns an error with empty aggregated outputs, no strategy has been
\* applied, nothing was aggregated and no node input is recorded.
C16_UnknownRequiredSourceFailsFast ==
    [][ProcessStep /\ (\E source_id \in SeqSet(agg_config.requiredSources) :
                           source_id \notin GraphNodes)
         => /\ "error" \in DOMAIN agg_last'.result
            /\ agg_last'.result.aggregated_outputs = <<>>
            /\ DOMAIN agg_last'.result = {"error", "aggregated_outputs"}
            /\ \A i \in 1..Len(agg_last'.log) :
                 agg_last'.log[i].event \in {"no source nodes", "required not found"}
            /\ node_inputs' = node_inputs]_vars

\* sources had finished, and process stopped at the unknown required source
C16_Witness ==
    /\ agg_last.op = "process"
    /\ agg_config.requiredSources = <<"ghost">>
    /\ agg_config.source_nodes = <<"s1", "s2">>
    /\ DOMAIN node_outputs = {"s1", "s2"}
    /\ agg_last.result.error.msg = "Required source nodes not found"
    /\ agg_last.result.error.missing = {"ghost"}
    /\ AggregatorId \notin DOMAIN node_inputs

\* the call's configuration lacked a required parameter of the node, or a
\* collaborator the node called raised
RequiredOf(kind) ==
    IF kind = "OpenAPINode" THEN {"providerId", "query", "serverFile"}
    ELSE IF kind \in {"LLMModelNode", "AgentNode"} THEN {"providerId"}
    ELSE IF kind = "SetStateNode" THEN {"states"}
    ELSE IF kind = "ZendeskToolNode" THEN {"subject", "description"}
    ELSE {}

NodeFailed ==
    /\ node_call.op = "process"
    /\ node_call.missing \in RequiredOf(node_call.kind) \/ node_call.external = "raises"

\* C17: a process(config) call with a missing required parameter or a failing
\* external call does not raise and returns a dict with status and error.
C17_FailuresContainedAtNode ==
    NodeFailed =>
        /\ ~node_call.outcome.raised
        /\ IsDictOutput(node_call.outcome.result)
        /\ {"status", "error"} \subseteq DOMAIN node_call.outcome.result.dict

C19_WitnessNotFound ==
    /\ exec.pc = "done"
    /\ exec.entry = "run_workflow"
    /\ exec.times = <<>>
    /\ exec.result.status = "error"

C20_ExecutionTerminates ==
    /\ (exec.pc = "scan") ~> (exec.pc = "done")
    /\ [](exec.pc = "done" /\ exec.times # <<>> =>
             IF HasOutput(Terminal) THEN exec.result = node_outputs[Terminal]
             ELSE exec.result = StallError /\ ~exec.progressed)
    /\ [](exec.pc # "idle" /\ exec.times # <<>> =>
             /\ \A node_id \in ExecNodes : exec.times[node_id] <= 1
             /\ exec.passes <= Cardinality(exec.executed) + 1)

\* an execution needed three passes and ended with the terminal node's output
C20_Witness ==
    /\ exec.pc = "done"
    /\ exec.passes = 3
    /\ HasOutput(Terminal)
    /\ exec.result.status = "success"

\* an execution ended with a StallError
C20_WitnessStall ==
    /\ exec.pc = "done"
    /\ exec.result = StallError
    /\ exec.passes = 2
    /\ agg_config.requireAllInputs
    /\ AggregatorId \notin exec.executed

\* this step is a run of the cleanup task
CleanupStep == cleanup' # cleanup

IsStale(conversation) == conversation.status = "in_progress" /\ conversation.age > StaleMinutes

\* C21: a run of the cleanup leaves every conversation that is finalized or
\* was updated within the last 5 minutes as it is; of the others, those whose
\* processing fails are counted in failed_count and left as they are, and the
\* rest are deleted when they have fewer than 3 messages and finalized
\* otherwise, whatever fails among the others.
C21_StaleDeletedOrFinalized ==
    [][CleanupStep =>
         /\ \A id \in DOMAIN conversations :
              IF ~IsStale(conversations[id]) \/ id \in cleanup'.failed
              THEN id \in DOMAIN conversations' /\ conversations'[id] = conversations[id]
              ELSE IF conversations[id].transcription.len < 3
              THEN id \notin DOMAIN conversations'
              ELSE /\ id \in DOMAIN conversations'
                   /\ conversations'[id].status = "finalized"
         /\ cleanup'.failed \subseteq {id \in DOMAIN conversations : IsStale(conversations[id])}
         /\ cleanup'.result.failed_count = Cardinality(cleanup'.failed)
         /\ cleanup'.result.deleted_count = Cardinality(DOMAIN conversations \ DOMAIN conversations')
         /\ cleanup'.result.deleted_count + cleanup'.result.finalized_count
              + cleanup'.result.failed_count
              = Cardinality({id \in DOMAIN conversations : IsStale(conversations[id])})]_vars

\* one run deleted a conversation, finalized another and failed on a third
C21_Witness ==
    /\ cleanup.op = "cleanup"
    /\ cleanup.result.deleted_count = 1
    /\ cleanup.result.finalized_count = 1
    /\ cleanup.result.failed_count = 1
    /\ Cardinality(DOMAIN conversations) = 2

\* the compacted_message_count stored before the last operation, 0 without a summary
CountBefore == CountOf(get_compacted_summary(backend, last_op.meta_before))

\* C22: when a node's fetch calls the Compactor, the Compactor is handed exactly
\* the stored messages at positions [already compacted, total - keepRecent), in
\* order and without the recent messages, and a new summary is stored afterwards.
C22_CompactorGetsTheRange ==
    (NodeFetched /\ last_op.compaction.attempted) =>
        /\ last_op.compaction.handed
             = PySlice(History, CountBefore, Total - last_op.keep_recent)
        /\ Truthy(Summary)
        /\ CountOf(Summary) = Total - last_op.keep_recent

\* the messages of the thread whose role is in the filter, oldest first
Matching(roles) == SelectSeq(History, LAMBDA m : m.role \in roles)

\* C23: a read of the last N >= 1 messages with a role filter returns, oldest
\* first, the last min(N, number of matching messages) of the messages whose
\* role is in the filter, on the process-local backend and on the durable one.
C23_LastNOfMatching ==
    (last_op.op = "get_messages" /\ last_op.roles.filter /\ last_op.max_messages >= 1) =>
        last_op.result = PyLast(Matching(last_op.roles.roles), last_op.max_messages)

\* C24: after a write operation on a durable thread, every collection the
\* operation wrote exists and expires 30 days after the operation.
C24_WrittenKeysFreshlyExpire ==
    \A collection \in durable.wrote :
        /\ durable[collection].exists
        /\ durable[collection].expire_at = durable.now + ExpireDays

\* positions in this source list of the sources with a recorded output
AggregatedAt(source_nodes) == {i \in 1..Len(source_nodes) : source_nodes[i] \in DOMAIN node_outputs}

\* the entries the source at this position adds to a merge
ContributionAt(source_nodes, i) == Contribution(node_outputs[source_nodes[i]])

\* the last aggregated position whose source has this key
LastWith(source_nodes, key) ==
    CHOOSE i \in AggregatedAt(source_nodes) :
        /\ key \in DOMAIN ContributionAt(source_nodes, i)
        /\ \A j \in AggregatedAt(source_nodes) : key \in DOMAIN ContributionAt(source_nodes, j) => j <= i

\* the merge is the union, later sources winning, of the outputs of the sources in this list
MergedInOrder(source_nodes, merged) ==
    /\ DOMAIN merged = UNION {DOMAIN ContributionAt(source_nodes, i) : i \in AggregatedAt(source_nodes)}
    /\ \A key \in DOMAIN merged : merged[key] = ContributionAt(source_nodes, LastWith(source_nodes, key))[key]

Allocation(call) ==
    Max(0, Min(call.requested_history_tokens, call.total_budget - call.system_tokens - call.user_tokens))

\* the call returned the allocation, not negative and not above the request
ReturnsAllocation(call) ==
    /\ call.returned.result = Allocation(call)
    /\ call.returned.result >= 0
    /\ call.returned.result <= call.requested_history_tokens

\* C26 as claimed: for all integer inputs calculate_history_tokens returns
\* max(0, min(requested, total - system - user)), which is never negative and
\* never above the requested history tokens.
C26_AllocationForAllIntegers ==
    token_call.op = "calculate_history_tokens" => ReturnsAllocation(token_call)

\* C26: for all integer inputs whose requested history tokens are not
\* negative, calculate_history_tokens returns
\* max(0, min(requested, total - system - user)), which is never negative and
\* never above the requested history tokens.
C26_AllocationForNonNegativeRequest ==
    token_call.op = "calculate_history_tokens" /\ token_call.requested_history_tokens >= 0
        => ReturnsAllocation(token_call)

\* the budget cuts the request to a smaller, positive allocation
C26_Witness ==
    /\ token_call.op = "calculate_history_tokens"
    /\ token_call.requested_history_tokens = 12
    /\ token_call.total_budget = 12
    /\ token_call.system_tokens = 4
    /\ token_call.user_tokens = 2
    /\ token_call.returned = [result |-> 6, warned |-> TRUE]

\* C27: on the durable backend a finished get_messages_for_compaction returns
\* as to_compact the messages at chronological positions
\* [compacted_message_count, total - keepRecent) for the total and the count it
\* read, whether or not a message was appended between its reads.
C27_SliceOfTheTotalRead ==
    fetch.pc = "done" =>
        fetch.to_compact
            = SubSeq(History, fetch.start_index + 1,
                     Max(fetch.start_index, fetch.total_messages - fetch.keep_recent))

C29_DefaultThreadIdsDiffer ==
    \A i, j \in 1..Len(workflow_states.created) :
        /\ i # j
        /\ ~workflow_states.created[i].given
        /\ ~workflow_states.created[j].given
        => /\ workflow_states.created[i].thread_id # workflow_states.created[j].thread_id
           /\ workflow_states.created[i].memory # workflow_states.created[j].memory

\* execution_path names no node twice
PathHasNoDuplicates ==
    \A i, j \in 1..Len(execution_path) : execution_path[i] = execution_path[j] => i = j

\* execution_path names the nodes that have an entry in node_outputs, and no other
PathNamesRecordedNodes ==
    {execution_path[i] : i \in 1..Len(execution_path)} = DOMAIN node_outputs

\* C30: in every state execution_path names no node twice and names exactly
\* the nodes with an entry in node_outputs; the first set_node_output of a
\* node puts it at the end of the path and no other step changes the path, so
\* the path lists the nodes in the order of their first set_node_output.
C30_PathIsOrderOfFirstOutputs ==
    /\ [](PathHasNoDuplicates /\ PathNamesRecordedNodes)
    /\ [][execution_path' =
             IF node_call'.op = "set_node_output" /\ node_call'.node_id \notin DOMAIN node_outputs
             THEN Append(execution_path, node_call'.node_id)
             ELSE execution_path]_vars

\* s2 was recorded first, then s1, then s2 again with another output
C30_Witness ==
    /\ execution_path = <<"s2", "s1">>
    /\ node_call.op = "set_node_output"
    /\ node_call.node_id = "s2"
    /\ node_call.replaced # None
    /\ node_call.replaced # [was |-> node_call.output]

====
